---- MODULE Spec2Model ----
(***************************************************************************)
(* vantage-qlink-api: the HTTP -> TCP bridge engine (split layout, src/).   *)
(*                                                                         *)
(* One variable, ctx, mirrors the process-wide context object of           *)
(* src/core/context.js (queue, awaiter registries, caches, session) and    *)
(* carries a few observer fields (names starting with "h") that record     *)
(* what happened on the wire.                                              *)
(*                                                                         *)
(* Node.js runs every callback to completion: one action of this module is *)
(* one macrotask (an HTTP handler up to its first real suspension, a timer *)
(* callback, a socket event) together with all promise continuations       *)
(* (microtasks) it triggers.                                               *)
(*                                                                         *)
(* Time is counted in ticks.  Date.now() differences are kept as ages      *)
(* (ticks elapsed since the recorded instant, saturating at the largest    *)
(* value any comparison in the code distinguishes); a setTimeout is a      *)
(* countdown whose callback runs within the tick in which it reaches 0,    *)
(* in any order with the other events of that tick.  One tick stands for   *)
(* MIN_GAP_MS; the other durations are rounded to ticks.                   *)
(***************************************************************************)
EXTENDS Integers, Sequences, FiniteSets, TLC

VARIABLES ctx

vars == <<ctx>>

----------------------------------------------------------------------------
(* Bounds of the model *)

MaxOps == 4          \* operations (HTTP requests, push confirms) per behaviour
MaxSock == 2         \* sockets created per behaviour
MaxPumpers == 2      \* activations of pumpQueue that can be tracked at once
NumKeys == 2         \* switch addresses m-s-b
NumLoads == 1        \* load addresses m-e-mod-l

(* Program constants, in ticks (all are configuration values) *)

MIN_GAP_MS == 1                  \* ctx.MIN_GAP_MS
AWAITERS_MAX_PER_KEY == 2        \* ctx.AWAITERS_MAX_PER_KEY
LOAD_AWAITERS_MAX_PER_KEY == 2   \* ctx.LOAD_AWAITERS_MAX_PER_KEY
DEBOUNCE_MS == 2                 \* ctx.DEBOUNCE_MS
RELEASE_DELAY_MS == 1            \* the 60 ms confirm delay of a v = 0 event
AWAIT_FLOOR_MS == 1              \* Math.max(50, ...)
AWAIT_DEFAULT_MS == 3            \* timeoutMs || 2000
CONFIRM_MAX_MS == 3              \* confirmOneVGS: maxMs = 2000
VGS_MAX_MS == 3                  \* GET /status/vgs: maxMs || 1200
LOAD_MAX_MS == 3                 \* POST /dim: clampTimeout(maxMs, 2000)

\* appendRecv: capacity of the receive ring, counted in chunks
MAX_RECV_BYTES == 2
VSW_WAIT_MS == 1                 \* waitMs of /test/vsw
PUSH_FRESH_MS == 3               \* ctx.PUSH_FRESH_MS
MIN_POLL_INTERVAL_MS == 2        \* ctx.MIN_POLL_INTERVAL_MS (default cacheMs)

SwitchKeys == 1..NumKeys
LoadKeys == 1..NumLoads
OpIds == 1..MaxOps
SockIds == 1..MaxSock
Pumpers == 1..MaxPumpers

Max(a, b) == IF a > b THEN a ELSE b
Min(a, b) == IF a < b THEN a ELSE b
SetMin(S) == CHOOSE x \in S : \A y \in S : x <= y

RemoveAt(q, i) == SubSeq(q, 1, i - 1) \o SubSeq(q, i + 1, Len(q))
InsertAt(q, i, x) == SubSeq(q, 1, i - 1) \o <<x>> \o SubSeq(q, i, Len(q))
\* Array.prototype.indexOf, 1-based; 0 when absent
IndexOf(q, x) ==
  LET S == {i \in 1..Len(q) : q[i] = x} IN IF S = {} THEN 0 ELSE SetMin(S)
\* idx = q.indexOf(x); if (idx !== -1) q.splice(idx, 1)
RemoveFirst(q, x) == IF IndexOf(q, x) = 0 THEN q ELSE RemoveAt(q, IndexOf(q, x))
\* arr.filter(item => item !== x)
Without(q, x) == SelectSeq(q, LAMBDA y : y # x)

----------------------------------------------------------------------------
(* Records *)

NoLine == [form |-> "none", key |-> 0, v |-> 0]
NoRec == [has |-> FALSE, value |-> 0, raw |-> NoLine, age |-> 0, source |-> "none", by |-> 0]

\* One operation: an HTTP request or a push confirm.  Its id is also the id
\* of its queue item and of its awaiter entry.
NoOp == [kind |-> "none",      \* vgs | confirm | dimset | dimget | vsw | send
         key |-> 0,
         priority |-> 0,
         maxMs |-> 0,
         waitMs |-> 0,
         phase |-> "none",     \* jitter | follower | queued | running | done
         leader |-> 0,         \* follower: the op whose in-flight promise it awaits
         jit |-> -1,           \* jitter sleep countdown
         aw |-> "none",        \* awaiter promise: pending | resolved | timeout |
                               \*   disconnected | saturated | writeerr
         awRaw |-> NoLine,     \* the line the awaiter resolved with
         timer |-> -1,         \* awaiter deadline countdown, -1 = not armed
         attached |-> FALSE,   \* p.then(..).catch(..) attached
         out |-> "none",       \* outcome: ok | timeout | disconnected | saturated | writeerr
         resp |-> NoRec,       \* the record the HTTP response was built from
         fallback |-> FALSE,   \* X-Status-Fallback: stale-cache
         fmt |-> "bool",       \* req.query.format: bool | json
         status |-> 0,         \* HTTP status of the response, 0 = none yet
         hSettles |-> 0,       \* calls of resolve/reject on the awaiter entry (the first settles)
         hWritten |-> 0,       \* command writes issued for this op
         hRegBeforeWrite |-> TRUE,  \* awaiter was registered when the write was issued
         hEnqGap |-> 0,        \* the item whose gap sleep was on when it was enqueued, 0 = none
         hStart |-> 0,         \* order number of the start of its queue item
         hAnswered |-> FALSE]  \* the controller has sent its reply to the command

IdlePump == [pc |-> "idle", item |-> 0, left |-> 0, wsock |-> 0]

\* ctx.LOAD_AWAITERS after start-up: no entry for any load address.  (The
\* context module of src/ predates the load routes and does not create it.)
LoadAwaitersInit == [k \in LoadKeys |-> <<>>]

\* ctx.LOAD_CACHE after start-up: no record for any load address (like
\* LOAD_AWAITERS, not created by the context module of src/)
LoadCacheInit == [k \in LoadKeys |-> NoRec]

\* ctx.LOAD_INFLIGHT after start-up: no read in flight for any load address
\* (like LOAD_AWAITERS, not created by the context module of src/); the
\* value is the operation whose promise the entry holds, 0 = no entry
LoadInflightInit == [k \in LoadKeys |-> 0]

\* The context after start-up; n is the number of operations (HTTP requests
\* and push confirms) the behaviour may go on to start
InitCtx(n) ==
        [tcpClient |-> 0,
         sock |-> [s \in SockIds |-> "new"],
         listeners |-> {},
         autoSock |-> {},                          \* sockets whose connect tryConnect awaits
         autoTimer |-> -1,                         \* the retry timer of tryConnect
         RECV_BUFFER |-> 0,
         queue |-> <<>>,
         pumping |-> FALSE,
         pump |-> [p \in Pumpers |-> IdlePump],
         sinceLastSend |-> MIN_GAP_MS,
         AWAITERS |-> [k \in SwitchKeys |-> <<>>],
         LOAD_AWAITERS |-> LoadAwaitersInit,
         VGS_WAIT_ORDER |-> <<>>,
         VGS_INFLIGHT |-> [k \in SwitchKeys |-> 0],
         VGS_CACHE |-> [k \in SwitchKeys |-> NoRec],
         LOAD_CACHE |-> LoadCacheInit,
         LOAD_INFLIGHT |-> LoadInflightInit,
         PUSH_STATE |-> [k \in SwitchKeys |-> NoRec],
         WHITELIST |-> SwitchKeys,
         HB_WHITELIST_STRICT |-> TRUE,
         PENDING |-> [k \in SwitchKeys |-> -1],
         ops |-> [i \in OpIds |-> NoOp],
         nops |-> 0,
         opLimit |-> n,
         micro |-> <<>>,
         hDirectWrites |-> 0,
         hSinceWrite |-> MIN_GAP_MS,
         hMinGap |-> MIN_GAP_MS,
         hStarts |-> 0,
         hLostReply |-> FALSE,
         hTimers |-> [k \in SwitchKeys |-> 0],     \* armed confirm timers per address
         hTimerCancelled |-> FALSE,                \* a teardown cancelled an armed confirm timer
         hLast |-> [k \in SwitchKeys |-> -1]]      \* value of the last reply observed per address

Init == ctx = InitCtx(MaxOps)

----------------------------------------------------------------------------
(* Observers of the wire *)

\* A write on the socket has completed (its bytes were handed to the kernel)
CompleteWrite(c) ==
  [c EXCEPT !.hMinGap = Min(@, c.hSinceWrite), !.hSinceWrite = 0]

----------------------------------------------------------------------------
(* src/core/parsing.js: parseStateFromAny, src/core/state.js: setState *)

\* parseRgsLine || parseVgsLine || bare [01]; every reply form carries v
parseStateFromAny(raw) ==
  IF raw.form \in {"RGS", "RGS#", "VGS", "VGS#", "BARE"}
    THEN [ok |-> TRUE, value |-> IF raw.v # 0 THEN 1 ELSE 0]
    ELSE [ok |-> FALSE, value |-> 0]

\* faulty variant: an unchanged value leaves the push state and its ts alone
setStateIfChanged(c, k, value) ==
  LET prev == c.PUSH_STATE[k]
      st == [NoRec EXCEPT !.has = TRUE, !.value = value, !.source = "push-state"]
  IN IF ~prev.has \/ prev.value # value
       THEN [c EXCEPT !.PUSH_STATE[k] = st,
                      !.VGS_CACHE[k] = [st EXCEPT !.raw = [form |-> "BARE", key |-> 0, v |-> value]]]
       ELSE c

\* state.js 6-18: STATE is written in both branches, VGS_CACHE only when the
\* value differs from the previous push state
setState(c, k, value) ==
  LET prev == c.PUSH_STATE[k]
      st == [NoRec EXCEPT !.has = TRUE, !.value = value, !.source = "push-state"]
  IN IF ~prev.has \/ prev.value # value
       THEN [c EXCEPT !.PUSH_STATE[k] = st,
                      !.VGS_CACHE[k] = [st EXCEPT !.raw = [form |-> "BARE", key |-> 0, v |-> value]]]
       ELSE [c EXCEPT !.PUSH_STATE[k] = st]

----------------------------------------------------------------------------
(* Promise plumbing of the operations *)

IsSwitchOp(o) == o.kind \in {"vgs", "confirm"}
IsLoadOp(o) == o.kind \in {"dimset", "dimget"}

Followers(c, id) == {f \in OpIds : c.ops[f].phase = "follower" /\ c.ops[f].leader = id}

\* faulty variant: the catch block does not look for a stale cache entry
VgsRespondNoStale(c, id, how, rec) ==
  [c EXCEPT !.ops = [i \in OpIds |->
     IF i \notin ({id} \cup Followers(c, id)) THEN c.ops[i]
     ELSE IF how = "ok"
       THEN [c.ops[i] EXCEPT !.phase = "done", !.out = "ok", !.resp = rec, !.status = 200]
       ELSE [c.ops[i] EXCEPT !.phase = "done", !.out = how,
                             !.status = IF c.ops[i].fmt = "bool" THEN 200 ELSE 500]]]

\* GET /status/vgs after `await p` (leader) or `await VGS_INFLIGHT.get(key)`
\* (followers): the response, or the catch block's stale-cache fallback
VgsRespond(c, id, how, rec) ==
  LET k == c.ops[id].key
      stale == c.VGS_CACHE[k]
      who == {id} \cup Followers(c, id)
  IN [c EXCEPT !.ops = [i \in OpIds |->
        IF i \notin who THEN c.ops[i]
        ELSE IF how = "ok"
          THEN [c.ops[i] EXCEPT !.phase = "done", !.out = "ok", !.resp = rec,
                                !.status = 200]
          ELSE [c.ops[i] EXCEPT !.phase = "done", !.out = how,
                                !.resp = IF stale.has THEN stale ELSE NoRec,
                                !.fallback = stale.has,
                                !.status = IF stale.has \/ c.ops[i].fmt = "bool"
                                             THEN 200 ELSE 500]]]

\* faulty variant: the push state is mirrored whether or not the confirm
\* read succeeded
ConfirmDoneAlways(c, id, how) ==
  setState([c EXCEPT !.ops[id].out = how, !.ops[id].phase = "done"], c.ops[id].key,
           IF parseStateFromAny(c.ops[id].awRaw).ok
             THEN parseStateFromAny(c.ops[id].awRaw).value ELSE 0)

\* parsing.js 219-223: `val = await confirmOneVGS(m, s, b); setState(m, s, b,
\* val)` inside try { } catch (e) {}; confirmOneVGS (vgs_helpers.js 45-52)
\* yields the parsed value, 0 when the line does not parse
ConfirmDone(c, id, how) ==
  LET parsed == parseStateFromAny(c.ops[id].awRaw)
      c1 == [c EXCEPT !.ops[id].out = how, !.ops[id].phase = "done"]
  IN IF how = "ok"
       THEN setState(c1, c.ops[id].key, IF parsed.ok THEN parsed.value ELSE 0)
       ELSE c1

\* dim.js 134-146, 212-224: the status the catch block of POST /dim and
\* GET /dim derives from the error message
LoadStatus(how) ==
  IF how = "ok" THEN 200
  ELSE IF how = "timeout" THEN 504
  ELSE IF how = "saturated" THEN 429
  ELSE 500

\* dim.js 111-125: POST /dim after `await sendLoadWithAwaiter`; the record is
\* written only when the parser has not cached one
LoadSetDone(c, id, how) ==
  LET k == c.ops[id].key
      c1 == [c EXCEPT !.ops[id].out = how, !.ops[id].phase = "done",
                      !.ops[id].status = LoadStatus(how)]
  IN IF how = "ok" /\ ~c.LOAD_CACHE[k].has
       THEN [c1 EXCEPT !.LOAD_CACHE[k] =
               [NoRec EXCEPT !.has = TRUE, !.raw = c.ops[id].awRaw, !.source = "load", !.by = id]]
       ELSE c1

RECURSIVE runQueued(_, _)

\* the elements of a set of numbers, in ascending order
RECURSIVE Ascending(_)
Ascending(S) == IF S = {} THEN <<>> ELSE <<SetMin(S)>> \o Ascending(S \ {SetMin(S)})

\* dim.js 174-209: the followers of a failed read, in the order in which they
\* came: each deletes the in-flight entry, then sends a read of its own and
\* enters its promise
RECURSIVE LoadReadAgain(_, _)
LoadReadAgain(c, fs) ==
  IF fs = <<>> THEN c
  ELSE LET f == Head(fs)
           k == c.ops[f].key
       IN LoadReadAgain(runQueued([c EXCEPT !.LOAD_INFLIGHT[k] = f,
                                            !.ops[f].leader = 0], f),
                        Tail(fs))

\* dim.js 183-224: GET /dim after `await sendLoadWithAwaiter` in the async
\* function `pending`, the leader's `finally`, and the followers' awaits
LoadReadDone(c, id, how) ==
  LET k == c.ops[id].key
      fs == Followers(c, id)
      rec == IF c.LOAD_CACHE[k].has THEN c.LOAD_CACHE[k]
             ELSE [NoRec EXCEPT !.has = TRUE, !.raw = c.ops[id].awRaw,
                                !.source = "load", !.by = id]
      c1 == [c EXCEPT
               !.LOAD_INFLIGHT[k] = 0,
               !.LOAD_CACHE[k] = IF how = "ok" THEN rec ELSE @,
               !.ops = [i \in OpIds |->
                  IF i = id \/ (i \in fs /\ how = "ok")
                    THEN [@[i] EXCEPT !.phase = "done",
                                      !.out = how,
                                      !.status = LoadStatus(how),
                                      !.resp = IF how = "ok" THEN rec ELSE NoRec]
                    ELSE @[i]]]
  IN IF how = "ok" THEN c1 ELSE LoadReadAgain(c1, Ascending(fs))

\* The outer promise of sendVGSWithAwaiter / sendLoadWithAwaiter settles (the
\* first resolve/reject wins) and the code awaiting it continues
OuterSettle(c, id, how) ==
  LET o == c.ops[id]
      k == o.key
  IN IF o.out # "none" THEN c
     ELSE IF o.kind = "vgs" THEN
       \* vgs.js 109-135: the async IIFE p, then `finally VGS_INFLIGHT.delete`
       LET parsed == parseStateFromAny(o.awRaw)
           rec == [has |-> TRUE, value |-> IF parsed.ok THEN parsed.value ELSE 0,
                   raw |-> o.awRaw, age |-> 0, source |-> "tcp:await", by |-> id]
           c1 == IF how = "ok" THEN [c EXCEPT !.VGS_CACHE[k] = rec] ELSE c
           c2 == [c1 EXCEPT !.VGS_INFLIGHT[k] = 0]
       IN VgsRespond(c2, id, how, rec)
     ELSE IF o.kind = "confirm" THEN ConfirmDone(c, id, how)
     ELSE IF o.kind = "dimset" THEN LoadSetDone(c, id, how)
     ELSE IF o.kind = "dimget" THEN LoadReadDone(c, id, how)
     ELSE [c EXCEPT !.ops[id].out = how, !.ops[id].phase = "done"]

AwOutcome(aw) == IF aw = "resolved" THEN "ok" ELSE aw

\* The then/catch handlers attached to the awaiter promise
Continuation(c, id) ==
  LET o == c.ops[id] IN
  IF IsSwitchOp(o)
    THEN OuterSettle([c EXCEPT !.VGS_WAIT_ORDER = RemoveFirst(@, o.key)], id, AwOutcome(o.aw))
    ELSE OuterSettle(c, id, AwOutcome(o.aw))

RECURSIVE Drain(_)
Drain(c) ==
  IF c.micro = <<>> THEN c
  ELSE Drain(Continuation([c EXCEPT !.micro = Tail(@)], Head(c.micro)))

\* entry.resolve(raw) / entry.reject(err): the first call settles the promise;
\* attached handlers run as microtasks after the current callback
Settle(c, id, how, raw) ==
  LET o == c.ops[id]
      first == o.aw = "pending"
      c1 == [c EXCEPT !.ops[id].hSettles = Min(2, @ + 1),
                      !.ops[id].aw = IF first THEN how ELSE @,
                      !.ops[id].awRaw = IF first THEN raw ELSE @]
  IN IF first /\ o.attached THEN [c1 EXCEPT !.micro = Append(@, id)] ELSE c1

RECURSIVE SettleAll(_, _, _, _)
\* for (const entry of list) { clearTimeout(entry.timeout); entry.resolve|reject(..) }
SettleAll(c, ids, how, raw) ==
  IF ids = <<>> THEN c
  ELSE SettleAll(Settle([c EXCEPT !.ops[Head(ids)].timer = -1], Head(ids), how, raw),
                 Tail(ids), how, raw)

----------------------------------------------------------------------------
(* Awaiter registries: src/routes/vgs_helpers.js awaitVGS,                  *)
(* src/routes/load_helpers.js awaitLoad / cleanupAwaiter                    *)

\* Math.max(50, timeoutMs || 2000)
AwaitDeadline(timeoutMs) ==
  Max(AWAIT_FLOOR_MS, IF timeoutMs = 0 THEN AWAIT_DEFAULT_MS ELSE timeoutMs)

\* faulty variant: no cap on the list
awaitVGSUncapped(c, id) ==
  [c EXCEPT !.AWAITERS[c.ops[id].key] = Append(@, id),
            !.ops[id].aw = "pending",
            !.ops[id].timer = AwaitDeadline(c.ops[id].maxMs),
            !.ops[id].hRegBeforeWrite = (c.ops[id].hWritten = 0)]

awaitVGS(c, id) ==
  LET k == c.ops[id].key
      list == c.AWAITERS[k]
  IN IF Len(list) >= AWAITERS_MAX_PER_KEY
       THEN [c EXCEPT !.ops[id].aw = "saturated"]
       ELSE [c EXCEPT !.AWAITERS[k] = Append(list, id),
                      !.ops[id].aw = "pending",
                      !.ops[id].timer = AwaitDeadline(c.ops[id].maxMs),
                      !.ops[id].hRegBeforeWrite = (c.ops[id].hWritten = 0)]

awaitLoad(c, id) ==
  LET k == c.ops[id].key
      list == c.LOAD_AWAITERS[k]
  IN IF Len(list) >= LOAD_AWAITERS_MAX_PER_KEY
       THEN [c EXCEPT !.ops[id].aw = "saturated"]
       ELSE [c EXCEPT !.LOAD_AWAITERS[k] = Append(list, id),
                      !.ops[id].aw = "pending",
                      !.ops[id].timer = AwaitDeadline(c.ops[id].maxMs),
                      !.ops[id].hRegBeforeWrite = (c.ops[id].hWritten = 0)]

\* faulty variant: the entry stays in its list with its timer armed
cleanupNothing(c, id) == c

\* clearTimeout(meta.entry.timeout); remove meta.entry from its list
cleanupAwaiter(c, id) ==
  [c EXCEPT !.ops[id].timer = -1,
            !.LOAD_AWAITERS[c.ops[id].key] = Without(@, id)]

----------------------------------------------------------------------------
(* The send queue: src/core/queue.js *)

\* faulty variant: plain FIFO, priorities ignored
QueueAppend(q, ops, id) == Append(q, id)

\* faulty variant: the item goes ahead of the queued items of its own priority
QueueInsertAhead(q, ops, id) ==
  LET S == {i \in 1..Len(q) : ops[q[i]].priority <= ops[id].priority}
  IN IF S = {} THEN Append(q, id) ELSE InsertAt(q, SetMin(S), id)

\* runQueued, lines 31-32: priority-stable insertion
QueueInsert(q, ops, id) ==
  LET S == {i \in 1..Len(q) : ops[q[i]].priority < ops[id].priority}
  IN IF S = {} THEN Append(q, id) ELSE InsertAt(q, SetMin(S), id)

\* faulty variant: the re-entrancy guard is missing
PumpNeverBusy(c) == FALSE

\* pumpQueue line 7: `if (ctx.__pumping) return`
PumpBusy(c) == c.pumping

\* the item the pumper holds while it sleeps on the gap, 0 = not sleeping
GapWaiting(c) ==
  IF \E p \in Pumpers : c.pump[p].pc = "gap"
    THEN c.pump[CHOOSE p \in Pumpers : c.pump[p].pc = "gap"].item
    ELSE 0

\* tcpClient.write(buf, cb) called from a queue item
IssueWrite(c, p, id) ==
  [c EXCEPT !.pump[p] = [pc |-> "write", item |-> id, left |-> 0, wsock |-> c.tcpClient],
            !.ops[id].hWritten = Min(2, @ + 1)]

RECURSIVE PumpLoop(_, _)
RECURSIVE RunItem(_, _, _)
RECURSIVE ItemReturn(_, _, _, _)

\* faulty variant: the command is written first, the awaiter registered after
sendVGSThenAwait(c, p, id) ==
  awaitVGS(IssueWrite([c EXCEPT !.VGS_WAIT_ORDER = Append(@, c.ops[id].key)], p, id), id)

\* vgs_helpers.js 26-41: the queued fn of sendVGSWithAwaiter, up to its
\* first suspension
sendVGSWithAwaiter(c, p, id) ==
  LET c1 == awaitVGS(c, id)
      c2 == [c1 EXCEPT !.VGS_WAIT_ORDER = Append(@, c.ops[id].key)]
  IN IF c2.tcpClient = 0
       THEN ItemReturn(OuterSettle(c2, id, "writeerr"), p, id, FALSE)
       ELSE IssueWrite(c2, p, id)

\* load_helpers.js 70-97: the queued fn of sendLoadWithAwaiter, up to its
\* first suspension
sendLoadWithAwaiter(c, p, id) ==
  LET c1 == [awaitLoad(c, id) EXCEPT !.ops[id].attached = TRUE]
  IN IF c1.ops[id].aw = "saturated"
       THEN ItemReturn(OuterSettle(c1, id, "saturated"), p, id, FALSE)
     ELSE IF c1.tcpClient = 0
       THEN ItemReturn(
              Drain(Settle(cleanupAwaiter(c1, id), id, "writeerr", NoLine)),
              p, id, TRUE)
     ELSE IssueWrite(c1, p, id)

\* faulty variant: an item that throws ends the pumper's loop
ItemReturnStop(c, p, id, threw) ==
  LET o == c.ops[id]
      c1 == [c EXCEPT !.sinceLastSend = IF threw THEN @ ELSE 0,
                      !.pump[p] = [IdlePump EXCEPT !.pc = "loop"]]
      c2 == IF o.kind \in {"vsw", "send"}
              THEN [c1 EXCEPT !.ops[id].phase = "done",
                              !.ops[id].out = IF threw THEN "writeerr" ELSE "ok"]
            ELSE IF IsLoadOp(o) /\ threw
              THEN cleanupAwaiter(c1, id)
            ELSE c1
  IN IF threw THEN [c2 EXCEPT !.pumping = FALSE, !.pump[p] = IdlePump]
     ELSE PumpLoop(c2, p)

\* pumpQueue lines 16-21: item.fn() has returned (threw = it rejected)
ItemReturn(c, p, id, threw) ==
  LET o == c.ops[id]
      c1 == [c EXCEPT !.sinceLastSend = IF threw THEN @ ELSE 0,
                      !.pump[p] = [IdlePump EXCEPT !.pc = "loop"]]
      \* item.resolve(r) / item.reject(e): the code awaiting runQueued
      c2 == IF o.kind \in {"vsw", "send"}
              THEN [c1 EXCEPT !.ops[id].phase = "done",
                              !.ops[id].out = IF threw THEN "writeerr" ELSE "ok"]
            ELSE IF IsLoadOp(o) /\ threw
              THEN cleanupAwaiter(c1, id)       \* queued.catch
            ELSE c1
  IN PumpLoop(c2, p)

\* pumpQueue lines 10-14: the loop head
PumpLoop(c, p) ==
  IF c.queue = <<>>
    THEN [c EXCEPT !.pumping = FALSE, !.pump[p] = IdlePump]
    ELSE LET id == Head(c.queue)
             c1 == [c EXCEPT !.queue = Tail(@)]
             gap == Max(0, MIN_GAP_MS - c.sinceLastSend)
         IN IF gap > 0
              THEN [c1 EXCEPT !.pump[p] = [pc |-> "gap", item |-> id, left |-> gap, wsock |-> 0]]
              ELSE RunItem(c1, p, id)

\* item.fn() up to its first suspension
RunItem(c, p, id) ==
  LET o == c.ops[id]
      c0 == [c EXCEPT !.ops[id].phase = "running",
                      !.ops[id].hStart = c.hStarts + 1,
                      !.hStarts = @ + 1]
  IN IF IsSwitchOp(o) THEN sendVGSWithAwaiter(c0, p, id)
     ELSE IF IsLoadOp(o) THEN sendLoadWithAwaiter(c0, p, id)
     ELSE
       \* test.js 27-32, io.js 44-73
       IF c0.tcpClient = 0
         THEN ItemReturn(c0, p, id, TRUE)
         ELSE IssueWrite(c0, p, id)

FreePumper(c) == SetMin({p \in Pumpers : c.pump[p].pc = "idle"})

\* pumpQueue lines 6-9
pumpQueue(c) ==
  IF PumpBusy(c) \/ \A p \in Pumpers : c.pump[p].pc # "idle"
    THEN c
    ELSE PumpLoop([c EXCEPT !.pumping = TRUE], FreePumper(c))

\* runQueued lines 28-35
runQueued(c, id) ==
  pumpQueue([c EXCEPT !.queue = QueueInsert(c.queue, c.ops, id),
                      !.ops[id].phase = "queued",
                      !.ops[id].hEnqGap = GapWaiting(c)])

----------------------------------------------------------------------------
(* The session: src/core/tcp.js *)

\* context.js 13: HANDSHAKE defaults to 'VCL 1 0\r\n' (non-empty)
HANDSHAKE_SET == TRUE

RECURSIVE RejectAll(_, _)

\* faulty variant: the push-confirm timers are left armed
ensureDisconnectedKeepTimers(c) ==
  [RejectAll([c EXCEPT !.sock = IF c.tcpClient # 0
                                  THEN [@ EXCEPT ![c.tcpClient] = "closed"] ELSE @,
                       !.listeners = @ \ {c.tcpClient},
                       !.tcpClient = 0,
                       !.RECV_BUFFER = 0], 1)
     EXCEPT !.VGS_WAIT_ORDER = <<>>]

\* ensureDisconnected lines 142-147, keys k..NumKeys of ctx.AWAITERS
RejectAll(c, k) ==
  IF k > NumKeys THEN c
  ELSE RejectAll(SettleAll([c EXCEPT !.AWAITERS[k] = <<>>], c.AWAITERS[k],
                           "disconnected", NoLine), k + 1)

ensureDisconnected(c) ==
  LET s == c.tcpClient
      c1 == [c EXCEPT !.sock = IF s # 0 THEN [@ EXCEPT ![s] = "closed"] ELSE @,
                      !.listeners = @ \ {s},
                      !.tcpClient = 0,
                      !.RECV_BUFFER = 0,
                      !.PENDING = [k \in SwitchKeys |-> -1],
                      !.hTimers = [k \in SwitchKeys |-> 0],
                      !.hTimerCancelled = @ \/ \E k \in SwitchKeys : c.PENDING[k] >= 0]
  IN [RejectAll(c1, 1) EXCEPT !.VGS_WAIT_ORDER = <<>>]

\* connectToServer lines 153-157, 178: a new socket starts connecting
ConnectCall ==
  /\ \E s \in SockIds : ctx.sock[s] = "new"
  /\ LET s == SetMin({x \in SockIds : ctx.sock[x] = "new"})
     IN ctx' = Drain([ensureDisconnected(ctx) EXCEPT !.sock[s] = "connecting"])

\* socket.once('connect'), lines 159-173; the handshake is written directly
SockConnected(s) ==
  /\ ctx.sock[s] = "connecting"
  /\ LET c1 == [ctx EXCEPT !.sock[s] = "open",
                            !.tcpClient = s,
                            !.RECV_BUFFER = 0,
                            !.autoSock = @ \ {s},
                            !.listeners = @ \cup {s}]
     IN ctx' = IF HANDSHAKE_SET
                 THEN CompleteWrite([c1 EXCEPT !.hDirectWrites = Min(2, @ + 1)])
                 ELSE c1

\* socket.once('close'), line 176: the peer or the network ends the connection
SockClosed(s) ==
  /\ ctx.sock[s] = "open"
  /\ ctx' = [ctx EXCEPT !.sock[s] = "closed",
                        !.tcpClient = IF @ = s THEN 0 ELSE @]

\* POST /disconnect: src/routes/admin.js 46-50
Disconnect ==
  /\ ctx.tcpClient # 0
  /\ ctx' = Drain(ensureDisconnected(ctx))

\* the retry delay of tryConnect, Math.max(500, AUTO_CONNECT_RETRY_MS)
AUTO_CONNECT_RETRY_MS == 2

\* tryConnect: the guard on getTcpClient never holds, since the TCP module
\* exports no such function; the attempt is a connectToServer call whose
\* promise tryConnect awaits
tryConnect(c) ==
  LET s == SetMin({x \in SockIds : c.sock[x] = "new"})
  IN Drain([ensureDisconnected(c) EXCEPT !.sock[s] = "connecting",
                                         !.autoSock = @ \cup {s}])

\* socket.once('error') and the connect timeout, connectToServer lines
\* 174-175: the connect promise rejects; tryConnect's catch arms the retry
SockError(s) ==
  /\ ctx.sock[s] = "connecting"
  /\ ctx' = [ctx EXCEPT !.sock[s] = "closed",
                        !.autoSock = @ \ {s},
                        !.autoTimer = IF s \in ctx.autoSock
                                        THEN AUTO_CONNECT_RETRY_MS ELSE @]

\* setTimeout(() => tryConnect('retry'), ...) fires
AutoRetryFire ==
  /\ ctx.autoTimer = 0
  /\ \E s \in SockIds : ctx.sock[s] = "new"
  /\ ctx' = tryConnect([ctx EXCEPT !.autoTimer = -1])

----------------------------------------------------------------------------
(* The reader: src/core/tcp.js appendRecv, src/core/parsing.js              *)

\* resolve and drain the awaiter list of a switch key
ResolveSwitch(c, k, raw) ==
  SettleAll([c EXCEPT !.AWAITERS[k] = <<>>], c.AWAITERS[k], "resolved", raw)

ResolveLoad(c, k, raw) ==
  SettleAll([c EXCEPT !.LOAD_AWAITERS[k] = <<>>], c.LOAD_AWAITERS[k], "resolved", raw)

\* faulty variant: the record carries a ts one tick in the past
ParserRecStale(v) ==
  [NoRec EXCEPT !.has = TRUE, !.value = IF v # 0 THEN 1 ELSE 0, !.age = 1,
                !.raw = [form |-> "BARE", key |-> 0, v |-> v]]

\* the record of processIncomingLineFor{VGS,RGS,Bare01}: ts: Date.now()
ParserRec(v) ==
  [NoRec EXCEPT !.has = TRUE, !.value = IF v # 0 THEN 1 ELSE 0,
                !.raw = [form |-> "BARE", key |-> 0, v |-> v]]

\* whitelist.js isWhitelisted (README.md 542-545)
isWhitelisted(c, k) ==
  IF c.WHITELIST = {} THEN ~c.HB_WHITELIST_STRICT ELSE k \in c.WHITELIST

\* faulty variant: the pending confirm timer is not cleared, a second is armed
onSWEventNoCancel(c, k, v) ==
  IF ~isWhitelisted(c, k) THEN c
  ELSE [c EXCEPT !.PENDING[k] = IF v = 0 THEN RELEASE_DELAY_MS ELSE DEBOUNCE_MS,
                 !.hTimers[k] = Min(2, @ + 1)]

\* faulty variant: every address passes the whitelist
onSWEventAny(c, k, v) ==
  [c EXCEPT !.PENDING[k] = IF v = 0 THEN RELEASE_DELAY_MS ELSE DEBOUNCE_MS,
            !.hTimers[k] = 1]

\* parsing.js 205-226: clear the pending confirm timer of the address, arm a
\* new one
onSWEvent(c, k, v) ==
  IF ~isWhitelisted(c, k) THEN c
  ELSE LET existing == c.PENDING[k] >= 0
           cleared == IF existing THEN c.hTimers[k] - 1 ELSE c.hTimers[k]
       IN [c EXCEPT !.PENDING[k] = IF v = 0 THEN RELEASE_DELAY_MS ELSE DEBOUNCE_MS,
                    !.hTimers[k] = Min(2, cleared + 1)]

\* faulty variant: the head of the wait order is read but not removed
Bare01NoShift(c, v) ==
  IF c.VGS_WAIT_ORDER = <<>> THEN c
  ELSE ResolveSwitch([c EXCEPT !.VGS_CACHE[Head(c.VGS_WAIT_ORDER)] = ParserRec(v),
                               !.hLast[Head(c.VGS_WAIT_ORDER)] = IF v # 0 THEN 1 ELSE 0],
                     Head(c.VGS_WAIT_ORDER), [form |-> "BARE", key |-> 0, v |-> v])

\* parsing.js 52-64
processIncomingLineForBare01(c, v) ==
  IF c.VGS_WAIT_ORDER = <<>> THEN c
  ELSE LET k == Head(c.VGS_WAIT_ORDER)
       IN ResolveSwitch([c EXCEPT !.VGS_WAIT_ORDER = Tail(@),
                                  !.VGS_CACHE[k] = ParserRec(v),
                                  !.hLast[k] = IF v # 0 THEN 1 ELSE 0],
                        k, [form |-> "BARE", key |-> 0, v |-> v])

\* the record processIncomingLineForRLB / ..ForRGB cache (parsing.js 97-105)
LoadRec(line) == [NoRec EXCEPT !.has = TRUE, !.value = line.v, !.raw = line, !.source = "RLB"]

\* parsing.js 17-24: the six line handlers, applied to one line
processLine(c, line) ==
  IF line.form = "SW" THEN onSWEvent(c, line.key, line.v)
  ELSE IF line.form = "VGS" THEN
    ResolveSwitch([c EXCEPT !.VGS_CACHE[line.key] = ParserRec(line.v),
                            !.hLast[line.key] = IF line.v # 0 THEN 1 ELSE 0], line.key, line)
  ELSE IF line.form \in {"RGS", "RGS#"} THEN
    [ResolveSwitch([c EXCEPT !.VGS_CACHE[line.key] = ParserRec(line.v),
                             !.hLast[line.key] = IF line.v # 0 THEN 1 ELSE 0], line.key, line)
       EXCEPT !.VGS_WAIT_ORDER = RemoveFirst(@, line.key)]
  ELSE IF line.form \in {"RLB", "RLB#", "RGB", "RGB#"} THEN
    ResolveLoad([c EXCEPT !.LOAD_CACHE[line.key] = LoadRec(line)], line.key, line)
  ELSE IF line.form = "BARE" THEN processIncomingLineForBare01(c, line.v)
  ELSE c    \* no handler matches (e.g. "VGS# m s b v")

\* a reply for the key of an operation whose command is on the wire while its
\* awaiter is not registered yet, or a pending awaiter the reply did not reach
LostTo(c, d, line) ==
  /\ line.form \in {"VGS", "RGS", "RGS#", "RLB", "RLB#", "RGB", "RGB#"}
  /\ \E i \in OpIds :
       /\ c.ops[i].key = line.key
       /\ IF line.form \in {"VGS", "RGS", "RGS#"} THEN IsSwitchOp(c.ops[i]) ELSE IsLoadOp(c.ops[i])
       /\ \/ c.ops[i].hWritten > 0 /\ c.ops[i].aw = "none"
          \/ c.ops[i].aw = "pending" /\ d.ops[i].aw # "resolved"

\* socket.on('data', appendRecv): one chunk holding one line
Recv(s, line) ==
  /\ ctx.sock[s] = "open"
  /\ s \in ctx.listeners
  /\ LET c1 == [ctx EXCEPT !.RECV_BUFFER = Min(MAX_RECV_BYTES, @ + 1)]
         c2 == processLine(c1, line)
     IN ctx' = Drain([c2 EXCEPT !.hLostReply = @ \/ LostTo(ctx, c2, line)])

----------------------------------------------------------------------------
(* Operations: the HTTP handlers and the push pipeline *)

NewOp(kind, key, priority, maxMs, waitMs) ==
  [NoOp EXCEPT !.kind = kind, !.key = key, !.priority = priority,
               !.maxMs = maxMs, !.waitMs = waitMs]

NextId == ctx.nops + 1

\* faulty variant: no record counts as fresh
FreshNever(rec, ms) == FALSE

\* `st && (now - st.ts) < ctx.PUSH_FRESH_MS`, `cached && (now - cached.ts) < cacheMs`
Fresh(rec, ms) == rec.has /\ rec.age < ms

\* faulty variant: the in-flight request of the key is not seen
InFlightNone(c, k) == 0

\* vgs.js 98: ctx.VGS_INFLIGHT.get(key), 0 = none
InFlight(c, k) == c.VGS_INFLIGHT[k]

\* GET /status/vgs?format=fmt: src/routes/vgs.js 53-135
SwitchReadAs(k, cacheMs, jitterMs, maxMs, fmt) ==
  /\ ctx.tcpClient # 0
  /\ ctx.nops < ctx.opLimit
  /\ LET id == NextId
         op == [NewOp("vgs", k, 0, maxMs, 0) EXCEPT !.fmt = fmt]
         c0 == [ctx EXCEPT !.nops = id, !.ops[id] = op]
         st == ctx.PUSH_STATE[k]
         cached == ctx.VGS_CACHE[k]
     IN IF Fresh(st, PUSH_FRESH_MS) THEN
          ctx' = [c0 EXCEPT !.ops[id].phase = "done", !.ops[id].out = "ok",
                            !.ops[id].status = 200,
                            !.ops[id].resp = [st EXCEPT !.raw = [form |-> "BARE", key |-> 0, v |-> st.value]]]
        ELSE IF Fresh(cached, cacheMs) THEN
          ctx' = [c0 EXCEPT !.ops[id].phase = "done", !.ops[id].out = "ok",
                            !.ops[id].status = 200,
                            !.ops[id].resp = cached]
        ELSE IF InFlight(ctx, k) # 0 THEN
          ctx' = [c0 EXCEPT !.ops[id].phase = "follower",
                            !.ops[id].leader = InFlight(ctx, k)]
        ELSE IF jitterMs > 0 THEN
          \E j \in 0..(jitterMs - 1) :
            ctx' = [c0 EXCEPT !.VGS_INFLIGHT[k] = id,
                              !.ops[id].phase = "jitter", !.ops[id].jit = j]
        ELSE
          ctx' = runQueued([c0 EXCEPT !.VGS_INFLIGHT[k] = id], id)

\* GET /status/vgs?format=bool, the form the Homebridge plugin polls with
SwitchRead(k, cacheMs, jitterMs, maxMs) == SwitchReadAs(k, cacheMs, jitterMs, maxMs, "bool")

\* vgs.js 110-111: the jitter sleep is over
JitterDone(id) ==
  /\ ctx.ops[id].phase = "jitter"
  /\ ctx.ops[id].jit = 0
  /\ ctx' = runQueued([ctx EXCEPT !.ops[id].jit = -1], id)

\* parsing.js 217-224: the confirm timer of a push event fires
ConfirmFire(k) ==
  /\ ctx.PENDING[k] = 0
  /\ ctx.nops < ctx.opLimit
  /\ LET id == NextId
     IN ctx' = runQueued([ctx EXCEPT !.nops = id,
                                     !.PENDING[k] = -1,
                                     !.hTimers[k] = Max(0, @ - 1),
                                     !.ops[id] = NewOp("confirm", k, 0, CONFIRM_MAX_MS, 0)], id)

\* POST /dim: src/routes/dim.js 70-111
LoadSet(k, maxMs) ==
  /\ ctx.tcpClient # 0
  /\ ctx.nops < ctx.opLimit
  /\ LET id == NextId
     IN ctx' = runQueued([ctx EXCEPT !.nops = id,
                                     !.ops[id] = NewOp("dimset", k, 0, maxMs, 0)], id)

\* faulty variant: the cache is never consulted
LoadCacheMiss(c, k, cacheMs) == FALSE

\* dim.js 169-170: `cached && (now - cached.ts) < cacheMs`
LoadCacheHit(c, k, cacheMs) == Fresh(c.LOAD_CACHE[k], cacheMs)

\* GET /dim with a session: src/routes/dim.js 154-211
LoadRead(k, cacheMs, maxMs) ==
  /\ ctx.tcpClient # 0
  /\ ctx.nops < ctx.opLimit
  /\ LET id == NextId
         c0 == [ctx EXCEPT !.nops = id, !.ops[id] = NewOp("dimget", k, 0, maxMs, 0)]
     IN IF LoadCacheHit(ctx, k, cacheMs) THEN
          ctx' = [c0 EXCEPT !.ops[id].phase = "done", !.ops[id].out = "ok",
                            !.ops[id].status = 200,
                            !.ops[id].resp = ctx.LOAD_CACHE[k]]
        ELSE IF ctx.LOAD_INFLIGHT[k] # 0 THEN
          ctx' = [c0 EXCEPT !.ops[id].phase = "follower",
                            !.ops[id].leader = ctx.LOAD_INFLIGHT[k]]
        ELSE
          ctx' = runQueued([c0 EXCEPT !.LOAD_INFLIGHT[k] = id], id)

\* dim.js 151-153: GET /dim without a session answers 400 'Not connected.'
LoadReadNotConnected(k) ==
  /\ ctx.tcpClient = 0
  /\ ctx.nops < ctx.opLimit
  /\ ctx' = [ctx EXCEPT !.nops = NextId,
                        !.ops[NextId] = [NewOp("dimget", k, 0, 0, 0) EXCEPT
                                           !.phase = "done",
                                           !.out = "notconnected", !.status = 400]]

\* GET /dim, with and without a session: dim.js 149-225
GetDim(k, cacheMs, maxMs) ==
  \/ LoadReadNotConnected(k)
  \/ LoadRead(k, cacheMs, maxMs)

\* GET|POST /test/vsw: src/routes/test.js 15-40
SwitchWrite(k, waitMs) ==
  /\ ctx.tcpClient # 0
  /\ ctx.nops < ctx.opLimit
  /\ LET id == NextId
     IN ctx' = runQueued([ctx EXCEPT !.nops = id,
                                     !.ops[id] = NewOp("vsw", k, 10, 0, waitMs)], id)

\* POST /send: src/routes/io.js 16-87
RawSend(waitMs) ==
  /\ ctx.tcpClient # 0
  /\ ctx.nops < ctx.opLimit
  /\ LET id == NextId
     IN ctx' = runQueued([ctx EXCEPT !.nops = id,
                                     !.ops[id] = NewOp("send", 0, 5, 0, waitMs)], id)

----------------------------------------------------------------------------
(* Timers and I/O completions *)

\* queue.js 14: `await sleep(gap)` is over
GapDone(p) ==
  /\ ctx.pump[p].pc = "gap"
  /\ ctx.pump[p].left = 0
  /\ ctx' = RunItem(ctx, p, ctx.pump[p].item)

\* faulty variant: after its write the fn stays suspended for the length of
\* the awaiter's deadline
writeCallbackHold(c, p) ==
  LET id == c.pump[p].item
      ok == c.sock[c.pump[p].wsock] = "open"
  IN IF ok
       THEN [CompleteWrite(c) EXCEPT !.pump[p].pc = "wait",
                                     !.pump[p].left = Max(1, c.ops[id].timer),
                                     !.ops[id].attached = TRUE]
       ELSE ItemReturn(c, p, id, TRUE)

\* the callback of tcpClient.write (tcp.js 187) and what the suspended fn
\* does next: success while the socket lives, an error once it was destroyed
\* or closed
writeCallback(c, p) ==
  LET id == c.pump[p].item
      o == c.ops[id]
      ok == c.sock[c.pump[p].wsock] = "open"
      c0 == IF ok THEN CompleteWrite(c) ELSE c
  IN IF IsSwitchOp(o) THEN
       IF ok
         THEN \* p.then(..).catch(..); return
              LET c1 == [c0 EXCEPT !.ops[id].attached = TRUE]
                  c2 == IF o.aw # "pending" THEN Continuation(c1, id) ELSE c1
              IN ItemReturn(c2, p, id, FALSE)
         ELSE \* catch (e) { reject(e) }
              ItemReturn(OuterSettle(c0, id, "writeerr"), p, id, FALSE)
     ELSE IF IsLoadOp(o) THEN
       IF ok
         THEN ItemReturn(c0, p, id, FALSE)
         ELSE ItemReturn(
                Drain(OuterSettle(Settle(cleanupAwaiter(c0, id), id, "writeerr", NoLine),
                                  id, "writeerr")),
                p, id, TRUE)
     ELSE
       IF ~ok THEN ItemReturn(c0, p, id, TRUE)
       ELSE IF o.waitMs > 0
         THEN [c0 EXCEPT !.pump[p].pc = "wait", !.pump[p].left = o.waitMs]
         ELSE ItemReturn(c0, p, id, FALSE)

WriteDone(p) ==
  /\ ctx.pump[p].pc = "write"
  /\ ctx' = writeCallback(ctx, p)

\* test.js 30 / io.js 69: `await sleep(waitMs)` inside the item is over
WaitDone(p) ==
  /\ ctx.pump[p].pc = "wait"
  /\ ctx.pump[p].left = 0
  /\ ctx' = ItemReturn(ctx, p, ctx.pump[p].item, FALSE)

\* the deadline timer of an awaiter fires: vgs_helpers.js 12-18,
\* load_helpers.js 40-48
AwaiterTimeout(id) ==
  /\ ctx.ops[id].timer = 0
  /\ LET o == ctx.ops[id]
         c1 == IF IsSwitchOp(o)
                 THEN [ctx EXCEPT !.AWAITERS[o.key] = Without(@, id), !.ops[id].timer = -1]
                 ELSE [ctx EXCEPT !.LOAD_AWAITERS[o.key] = Without(@, id), !.ops[id].timer = -1]
     IN ctx' = Drain(Settle(c1, id, "timeout", NoLine))

Dec(t) == IF t > 0 THEN t - 1 ELSE t
Older(rec, cap) == IF rec.has THEN [rec EXCEPT !.age = Min(cap, @ + 1)] ELSE rec
AgeCap == Max(PUSH_FRESH_MS, MIN_POLL_INTERVAL_MS)

SomethingTimed ==
  \/ \E i \in OpIds : ctx.ops[i].timer > 0 \/ ctx.ops[i].jit > 0
  \/ \E k \in SwitchKeys : ctx.PENDING[k] > 0
  \/ \E p \in Pumpers : ctx.pump[p].left > 0
  \/ ctx.sinceLastSend < MIN_GAP_MS
  \/ ctx.hSinceWrite < MIN_GAP_MS
  \/ \E k \in SwitchKeys : \/ ctx.VGS_CACHE[k].has /\ ctx.VGS_CACHE[k].age < AgeCap
                           \/ ctx.PUSH_STATE[k].has /\ ctx.PUSH_STATE[k].age < AgeCap
  \/ \E k \in LoadKeys : ctx.LOAD_CACHE[k].has /\ ctx.LOAD_CACHE[k].age < AgeCap
  \/ ctx.autoTimer > 0

\* an expired timer whose callback can run, or a socket write whose callback
\* is outstanding: Node runs these before the clock moves on by a whole tick
TimerDue ==
  \/ \E i \in OpIds : ctx.ops[i].timer = 0 \/ ctx.ops[i].jit = 0
  \/ \E k \in SwitchKeys : ctx.PENDING[k] = 0 /\ ctx.nops < ctx.opLimit
  \/ \E p \in Pumpers : ctx.pump[p].pc \in {"gap", "wait"} /\ ctx.pump[p].left = 0
  \/ \E p \in Pumpers : ctx.pump[p].pc = "write"
  \/ ctx.autoTimer = 0 /\ \E s \in SockIds : ctx.sock[s] = "new"

\* one tick of the clock
Tick ==
  /\ SomethingTimed
  /\ ~TimerDue
  /\ ctx' = [ctx EXCEPT
       !.sinceLastSend = Min(MIN_GAP_MS, @ + 1),
       !.hSinceWrite = Min(MIN_GAP_MS, @ + 1),
       !.ops = [i \in OpIds |-> [@[i] EXCEPT !.timer = Dec(@), !.jit = Dec(@)]],
       !.PENDING = [k \in SwitchKeys |-> Dec(@[k])],
       !.autoTimer = Dec(@),
       !.pump = [p \in Pumpers |-> [@[p] EXCEPT !.left = Dec(@)]],
       !.VGS_CACHE = [k \in SwitchKeys |-> Older(@[k], AgeCap)],
       !.LOAD_CACHE = [k \in LoadKeys |-> Older(@[k], AgeCap)],
       !.PUSH_STATE = [k \in SwitchKeys |-> Older(@[k], AgeCap)]]

----------------------------------------------------------------------------
(* Specifications *)

ReplyForms == {"RGS#", "VGS", "VGS#", "BARE", "SW", "RLB#"}
Lines ==
  {[form |-> f, key |-> k, v |-> v] : f \in {"RGS#", "VGS", "VGS#", "SW"}, k \in SwitchKeys, v \in 0..1}
  \cup {[form |-> "BARE", key |-> 0, v |-> v] : v \in 0..1}
  \cup {[form |-> "RLB#", key |-> k, v |-> 1] : k \in LoadKeys}

Next ==
  \/ ConnectCall
  \/ \E s \in SockIds : SockConnected(s)
  \/ \E s \in SockIds : SockClosed(s)
  \/ Disconnect
  \/ \E s \in SockIds, line \in Lines : Recv(s, line)
  \/ \E k \in SwitchKeys : SwitchRead(k, MIN_POLL_INTERVAL_MS, 1, VGS_MAX_MS)
  \/ \E id \in OpIds : JitterDone(id)
  \/ \E k \in SwitchKeys : ConfirmFire(k)
  \/ \E k \in LoadKeys : LoadSet(k, LOAD_MAX_MS)
  \/ \E k \in SwitchKeys : SwitchWrite(k, VSW_WAIT_MS)
  \/ RawSend(0)
  \/ \E p \in Pumpers : GapDone(p)
  \/ \E p \in Pumpers : WriteDone(p)
  \/ \E p \in Pumpers : WaitDone(p)
  \/ \E id \in OpIds : AwaiterTimeout(id)
  \/ Tick

Spec == Init /\ [][Next]_vars

----------------------------------------------------------------------------
(* The send queue under load: one session, reads (priority 0), raw sends   *)
(* (priority 5) and switch writes (priority 10) on one address             *)

ConnectFirst ==
  /\ \A s \in SockIds : ctx.sock[s] = "new"
  /\ ConnectCall

QueueRead == SwitchRead(1, MIN_POLL_INTERVAL_MS, 0, VGS_MAX_MS)
QueueWrite == SwitchWrite(1, VSW_WAIT_MS)
QueueSend == RawSend(0)

NextQueue ==
  \/ ConnectFirst
  \/ \E s \in SockIds : SockConnected(s)
  \/ QueueRead
  \/ QueueWrite
  \/ QueueSend
  \/ \E p \in Pumpers : GapDone(p)
  \/ \E p \in Pumpers : WriteDone(p)
  \/ \E p \in Pumpers : WaitDone(p)
  \/ \E id \in OpIds : AwaiterTimeout(id)
  \/ Tick

SpecQueue == Init /\ [][NextQueue]_vars

\* C1: any two consecutive completed writes on the controller socket are at
\* least MIN_GAP_MS apart (hMinGap is the smallest distance seen so far)
C1_Pacing == ctx.hMinGap >= MIN_GAP_MS

\* C2: at no instant do two activations of the pumper hold an item: at most
\* one item's fn (write or in-item sleep) is in progress and at most one
\* activation of pumpQueue is past its guard
C2_SingleWriter ==
  /\ Cardinality({p \in Pumpers : ctx.pump[p].pc \in {"write", "wait"}}) <= 1
  /\ Cardinality({p \in Pumpers : ctx.pump[p].pc # "idle"}) <= 1

\* an item's fn is suspended while other items wait in the queue, after some
\* item had been enqueued during a gap sleep
C2_Witness ==
  /\ \E p \in Pumpers : ctx.pump[p].pc \in {"write", "wait"}
  /\ ctx.queue # <<>>
  /\ \E i \in OpIds : ctx.ops[i].hEnqGap > 0

\* C3: every write on the controller socket is issued from inside a queue
\* item run by pumpQueue (hDirectWrites counts the writes issued elsewhere)
C3_OnlyPumperWrites == ctx.hDirectWrites = 0

\* C4: of a priority-10 item and a priority-0 item enqueued during the same
\* gap sleep of the pumper, the priority-10 item starts (and writes) first
C4_PriorityFirst ==
  \A i, j \in OpIds :
    (/\ ctx.ops[i].priority = 10
     /\ ctx.ops[j].priority = 0
     /\ ctx.ops[i].hEnqGap > 0
     /\ ctx.ops[i].hEnqGap = ctx.ops[j].hEnqGap
     /\ ctx.ops[j].hStart > 0)
    => (ctx.ops[i].hStart > 0 /\ ctx.ops[i].hStart < ctx.ops[j].hStart)

\* the read was enqueued before the switch write, in the same gap sleep, and
\* both have been started
C4_Witness ==
  \E i, j \in OpIds :
    /\ ctx.ops[i].priority = 10
    /\ ctx.ops[j].priority = 0 /\ ctx.ops[j].kind = "vgs"
    /\ j < i
    /\ ctx.ops[i].hEnqGap > 0
    /\ ctx.ops[i].hEnqGap = ctx.ops[j].hEnqGap
    /\ ctx.ops[i].hWritten > 0 /\ ctx.ops[j].hWritten > 0
    /\ ctx.ops[i].hStart < ctx.ops[j].hStart

----------------------------------------------------------------------------
(* Awaiters: reads, push confirms and load sets on one switch address and  *)
(* one load address, with the controller answering                         *)

\* the controller answers the commands it has received: a reply line arrives
\* for an operation whose command has left (its write has completed) and
\* that is still waiting
Answers(line) ==
  \E i \in OpIds :
    /\ ctx.ops[i].hWritten > 0
    /\ \A p \in Pumpers : ~(ctx.pump[p].pc = "write" /\ ctx.pump[p].item = i)
    /\ ctx.ops[i].out = "none"
    /\ ctx.ops[i].key = line.key
    /\ IF line.form = "RLB#" THEN IsLoadOp(ctx.ops[i]) ELSE IsSwitchOp(ctx.ops[i])

Reply(s, line) ==
  /\ Answers(line)
  /\ Recv(s, line)

\* a station button is pressed: the controller pushes "SW m s b v"
PushEvent(s, k, v) ==
  /\ ctx.nops < ctx.opLimit
  /\ Recv(s, [form |-> "SW", key |-> k, v |-> v])

AwaitRead == SwitchRead(1, MIN_POLL_INTERVAL_MS, 0, VGS_MAX_MS)
AwaitSet == LoadSet(1, LOAD_MAX_MS)
AwaitReplies ==
  {[form |-> "RGS#", key |-> 1, v |-> 1],
   [form |-> "RLB#", key |-> 1, v |-> 1]}

InitAwait == ctx = InitCtx(MaxOps - 1)

NextAwait ==
  \/ ConnectFirst
  \/ \E s \in SockIds : SockConnected(s)
  \/ \E s \in SockIds, line \in AwaitReplies : Reply(s, line)
  \/ \E s \in SockIds : PushEvent(s, 1, 1)
  \/ AwaitRead
  \/ ConfirmFire(1)
  \/ AwaitSet
  \/ \E p \in Pumpers : GapDone(p)
  \/ \E p \in Pumpers : WriteDone(p)
  \/ \E id \in OpIds : AwaiterTimeout(id)
  \/ Tick

SpecAwait == InitAwait /\ [][NextAwait]_vars

Range(q) == {q[n] : n \in 1..Len(q)}

\* the awaiter entry of operation i is in a registry
Registered(i) ==
  \/ \E k \in SwitchKeys : i \in Range(ctx.AWAITERS[k])
  \/ \E k \in LoadKeys : i \in Range(ctx.LOAD_AWAITERS[k])

\* C5: of the concurrent reads of one switch address at most one (the
\* leader) holds a command, it writes that command once, and every read that
\* joined it is answered with the leader's record (same value, raw and ts)
C5_Coalesced ==
  /\ \A k \in SwitchKeys :
       Cardinality({i \in OpIds : /\ ctx.ops[i].kind = "vgs"
                                  /\ ctx.ops[i].key = k
                                  /\ ctx.ops[i].phase \in {"jitter", "queued", "running"}}) <= 1
  /\ \A f \in OpIds :
       (ctx.ops[f].kind = "vgs" /\ ctx.ops[f].leader # 0) =>
         LET l == ctx.ops[f].leader IN
         /\ ctx.ops[f].hWritten = 0
         /\ ctx.ops[l].hWritten <= 1
         /\ ctx.ops[f].phase = "done" =>
              /\ ctx.ops[l].phase = "done"
              /\ ctx.ops[f].out = ctx.ops[l].out
              /\ ctx.ops[f].resp = ctx.ops[l].resp
              /\ ctx.ops[f].out = "ok" =>
                   (ctx.ops[l].hWritten = 1 /\ ctx.ops[f].resp.by = l)

\* three reads of one address, two of them answered from the third one's reply
C5_Witness ==
  \E l, f, g \in OpIds :
    /\ f # g
    /\ ctx.ops[f].leader = l /\ ctx.ops[g].leader = l
    /\ ctx.ops[f].out = "ok" /\ ctx.ops[g].out = "ok" /\ ctx.ops[l].out = "ok"
    /\ ctx.ops[f].resp.source = "tcp:await"
    /\ ctx.ops[l].hWritten = 1

CapInv ==
  /\ \A k \in SwitchKeys : Len(ctx.AWAITERS[k]) <= AWAITERS_MAX_PER_KEY
  /\ \A k \in LoadKeys : Len(ctx.LOAD_AWAITERS[k]) <= LOAD_AWAITERS_MAX_PER_KEY
  /\ \A i \in OpIds :
       ctx.ops[i].aw = "saturated" =>
         (~Registered(i) /\ ctx.ops[i].timer = -1 /\ ctx.ops[i].hSettles = 0)

\* a registration attempt fails in this step: the list was at its cap and is
\* the same after the step
SaturatedStep ==
  \A i \in OpIds :
    (ctx.ops[i].aw = "none" /\ ctx'.ops[i].aw = "saturated") =>
      LET k == ctx'.ops[i].key IN
      IF IsSwitchOp(ctx'.ops[i])
        THEN /\ Len(ctx.AWAITERS[k]) = AWAITERS_MAX_PER_KEY
             /\ ctx'.AWAITERS[k] = ctx.AWAITERS[k]
        ELSE /\ Len(ctx.LOAD_AWAITERS[k]) = LOAD_AWAITERS_MAX_PER_KEY
             /\ ctx'.LOAD_AWAITERS[k] = ctx.LOAD_AWAITERS[k]

\* C8: no awaiter list is ever longer than its cap, and a registration
\* attempted on a list at its cap fails at once (the promise is rejected as
\* saturated, no entry, no timer) and leaves the list as it was
C8_Capped == []CapInv /\ [][SaturatedStep]_vars

\* a registration on a switch address was refused while its list was full
C8_Witness ==
  \E i \in OpIds :
    /\ IsSwitchOp(ctx.ops[i])
    /\ ctx.ops[i].aw = "saturated"
    /\ Len(ctx.AWAITERS[ctx.ops[i].key]) = AWAITERS_MAX_PER_KEY

\* the ts of record b is not older than the ts of record a, b being read
\* `elapsed` ticks after a (ts = now - age)
TsKept(a, b, elapsed) == a.has => (b.has /\ b.age <= a.age + elapsed)

\* C15: over every step, the ts of the cached record of a switch address and
\* of a load address does not decrease (the age grows only with the clock)
C15_TsMonotone ==
  [][/\ \A k \in SwitchKeys :
          \/ TsKept(ctx.VGS_CACHE[k], ctx'.VGS_CACHE[k], 0)
          \/ Tick /\ TsKept(ctx.VGS_CACHE[k], ctx'.VGS_CACHE[k], 1)
     /\ \A k \in LoadKeys :
          \/ TsKept(ctx.LOAD_CACHE[k], ctx'.LOAD_CACHE[k], 0)
          \/ Tick /\ TsKept(ctx.LOAD_CACHE[k], ctx'.LOAD_CACHE[k], 1)]_vars

\* the cache of a switch address was written by the parser and then by the
\* read that awaited the reply, a load record is cached, and time has
\* passed since both writes
C15_Witness ==
  /\ \E k \in SwitchKeys :
       /\ ctx.VGS_CACHE[k].source = "tcp:await" /\ ctx.VGS_CACHE[k].age > 0
       /\ \E i \in OpIds : /\ ctx.ops[i].kind = "vgs" /\ ctx.ops[i].key = k
                           /\ ctx.ops[i].out = "ok"
                           /\ ctx.ops[i].resp.source = "tcp:await"
  /\ \E k \in LoadKeys : ctx.LOAD_CACHE[k].has /\ ctx.LOAD_CACHE[k].age > 0

----------------------------------------------------------------------------
(* The end of a session: a read, a push confirm or a load set is under way *)
(* when the operator disconnects or the connection drops.  The event loop  *)
(* runs every due timer and I/O callback, and the clock advances.          *)

InitSession == ctx = InitCtx(MaxOps - 2)

NextSession ==
  \/ ConnectFirst
  \/ \E s \in SockIds : SockConnected(s)
  \/ \E s \in SockIds : SockClosed(s)
  \/ Disconnect
  \/ \E s \in SockIds, line \in AwaitReplies : Reply(s, line)
  \/ \E s \in SockIds : PushEvent(s, 1, 1)
  \/ AwaitRead
  \/ ConfirmFire(1)
  \/ AwaitSet
  \/ \E p \in Pumpers : GapDone(p)
  \/ \E p \in Pumpers : WriteDone(p)
  \/ \E id \in OpIds : AwaiterTimeout(id)
  \/ Tick

\* a turn of the event loop: a due timer callback, an I/O completion, or
\* (when none is due) the passing of time
EventLoop ==
  \/ \E p \in Pumpers : GapDone(p) \/ WriteDone(p)
  \/ \E id \in OpIds : AwaiterTimeout(id)
  \/ ConfirmFire(1)
  \/ Tick

\* EventLoop can take a step (the state predicate ENABLED <<EventLoop>>_vars)
EventDue ==
  \/ \E p \in Pumpers : ctx.pump[p].pc = "gap" /\ ctx.pump[p].left = 0
  \/ \E p \in Pumpers : ctx.pump[p].pc = "write"
  \/ \E id \in OpIds : ctx.ops[id].timer = 0
  \/ (ctx.PENDING[1] = 0 /\ ctx.nops < ctx.opLimit)
  \/ (SomethingTimed /\ ~TimerDue)

\* weak fairness of EventLoop, WF_vars(EventLoop), with its enabling
\* condition written out
EventLoopFair == []<>(~EventDue) \/ []<><<EventLoop>>_vars

SpecSession == InitSession /\ [][NextSession]_vars /\ EventLoopFair

\* an awaiter is in its registry exactly while its promise is pending, with
\* its deadline timer armed; once the promise is settled the entry is out of
\* the registry and its timer is disarmed
AwaiterInv ==
  \A i \in OpIds :
    /\ Registered(i) => (ctx.ops[i].aw = "pending" /\ ctx.ops[i].timer >= 0)
    /\ ctx.ops[i].aw = "pending" => (Registered(i) /\ ctx.ops[i].hSettles = 0)
    /\ ctx.ops[i].aw \in {"resolved", "timeout", "disconnected", "writeerr"}
         => (~Registered(i) /\ ctx.ops[i].hSettles >= 1 /\ ctx.ops[i].timer = -1)
    /\ ctx.ops[i].aw = "resolved" => ctx.ops[i].awRaw # NoLine
    /\ ctx.ops[i].aw = "writeerr" => IsLoadOp(ctx.ops[i])

C9_DisconnectSettlesAll ==
  [][Disconnect =>
       /\ \A i \in OpIds : ctx.ops[i].aw = "pending" => ctx'.ops[i].aw = "disconnected"
       /\ \A i \in OpIds : ctx'.ops[i].timer = -1
       /\ \A k \in SwitchKeys : ctx'.PENDING[k] = -1]_vars

\* C10: a step in which the socket closes on its own clears the receive
\* ring, cancels every push-confirm timer and rejects every pending awaiter
\* as disconnected
C10_CloseTearsDown ==
  [][(\E s \in SockIds : SockClosed(s)) =>
       /\ ctx'.RECV_BUFFER = 0
       /\ \A k \in SwitchKeys : ctx'.PENDING[k] = -1
       /\ \A i \in OpIds : ctx.ops[i].aw = "pending" => ctx'.ops[i].aw = "disconnected"]_vars

\* C11: a step of POST /disconnect empties the bare-reply wait order and
\* cancels and removes every pending push-confirm timer, whatever they held
C11_DisconnectClears ==
  [][Disconnect =>
       /\ ctx'.VGS_WAIT_ORDER = <<>>
       /\ \A k \in SwitchKeys : ctx'.PENDING[k] = -1 /\ ctx'.hTimers[k] = 0]_vars

\* the teardown met a written read still waiting (its address was in the
\* wait order) and an armed confirm timer
C11_Witness ==
  /\ ctx.tcpClient = 0
  /\ ctx.hTimerCancelled
  /\ \E i \in OpIds : /\ IsSwitchOp(ctx.ops[i])
                      /\ ctx.ops[i].hWritten > 0
                      /\ ctx.ops[i].aw = "disconnected"
  /\ ctx.VGS_WAIT_ORDER = <<>>
  /\ \A k \in SwitchKeys : ctx.PENDING[k] = -1

----------------------------------------------------------------------------
(* Bare replies: reads of two switch addresses and push confirms, with the  *)
(* controller answering every command it received, in the order received,   *)
(* as "RGS# m s b v" or as a bare "0" / "1", one or two lines per chunk     *)

RECURSIVE processIncomingText(_, _)
\* parsing.js 9-26: the lines of one chunk, in order
processIncomingText(c, lines) ==
  IF lines = <<>> THEN c
  ELSE processIncomingText(processLine(c, Head(lines)), Tail(lines))

\* switch commands the controller has received and not answered yet
Unanswered(c) ==
  {i \in OpIds : /\ IsSwitchOp(c.ops[i])
                 /\ c.ops[i].hWritten > 0
                 /\ \A p \in Pumpers : ~(c.pump[p].pc = "write" /\ c.pump[p].item = i)
                 /\ ~c.ops[i].hAnswered}

\* the one of a set of operations whose queue item started first
First(c, S) == CHOOSE i \in S : \A j \in S : c.ops[i].hStart <= c.ops[j].hStart

\* the reply of the controller to the command of operation i
ReplyLine(c, i, form, v) ==
  [form |-> form, key |-> IF form = "BARE" THEN 0 ELSE c.ops[i].key, v |-> v]

\* appendRecv (tcp.js 109-126) on a chunk that answers the operations ids
appendRecv(c, ids, lines) ==
  Drain(processIncomingText(
          [c EXCEPT !.RECV_BUFFER = Min(MAX_RECV_BYTES, @ + 1),
                    !.ops = [i \in OpIds |->
                               IF i \in ids THEN [@[i] EXCEPT !.hAnswered = TRUE] ELSE @[i]]],
          lines))

BareForms == {"BARE", "RGS#"}

\* a chunk with the reply to the oldest unanswered command
AnswerOne(s, form, v) ==
  /\ ctx.sock[s] = "open"
  /\ s \in ctx.listeners
  /\ Unanswered(ctx) # {}
  /\ LET i == First(ctx, Unanswered(ctx))
     IN ctx' = appendRecv(ctx, {i}, <<ReplyLine(ctx, i, form, v)>>)

\* a chunk with the replies to the two oldest unanswered commands
AnswerTwo(s, f1, v1, f2, v2) ==
  /\ ctx.sock[s] = "open"
  /\ s \in ctx.listeners
  /\ Cardinality(Unanswered(ctx)) >= 2
  /\ LET i == First(ctx, Unanswered(ctx))
         j == First(ctx, Unanswered(ctx) \ {i})
     IN ctx' = appendRecv(ctx, {i, j},
                          <<ReplyLine(ctx, i, f1, v1), ReplyLine(ctx, j, f2, v2)>>)

BareRead(k) == SwitchRead(k, MIN_POLL_INTERVAL_MS, 0, VGS_MAX_MS)

InitBare == ctx = InitCtx(MaxOps - 2)

NextBare ==
  \/ ConnectFirst
  \/ \E s \in SockIds : SockConnected(s)
  \/ \E k \in SwitchKeys : BareRead(k)
  \/ \E s \in SockIds : PushEvent(s, 1, 1)
  \/ ConfirmFire(1)
  \/ \E s \in SockIds, f \in BareForms, v \in 0..1 : AnswerOne(s, f, v)
  \/ \E s \in SockIds, f1 \in BareForms, f2 \in BareForms, v1 \in 0..1, v2 \in 0..1 :
       AnswerTwo(s, f1, v1, f2, v2)
  \/ \E p \in Pumpers : GapDone(p)
  \/ \E p \in Pumpers : WriteDone(p)
  \/ \E id \in OpIds : AwaiterTimeout(id)
  \/ Tick

SpecBare == InitBare /\ [][NextBare]_vars

\* switch reads (polls and push confirms) written and still waiting for
\* their reply
Outstanding(c) ==
  {i \in OpIds : IsSwitchOp(c.ops[i]) /\ c.ops[i].hWritten > 0 /\ c.ops[i].aw = "pending"}

\* the operations a line resolves when the parser handles it in context c
ResolvedBy(c, line) ==
  {i \in OpIds : c.ops[i].aw = "pending" /\ processLine(c, line).ops[i].aw = "resolved"}

BareLine(v) == [form |-> "BARE", key |-> 0, v |-> v]

\* C12: while the controller owes a reply, a bare 0|1 line is attributed to
\* the oldest switch read that was written and is still outstanding, and to
\* no other: it resolves that request only and changes the cache of its
\* address only (nothing when no request is outstanding)
C12_BareToOldest ==
  \A v \in 0..1 :
    Unanswered(ctx) # {} =>
      LET d == processLine(ctx, BareLine(v)) IN
      IF Outstanding(ctx) = {}
        THEN ResolvedBy(ctx, BareLine(v)) = {} /\ d.VGS_CACHE = ctx.VGS_CACHE
        ELSE LET o == First(ctx, Outstanding(ctx)) IN
             /\ ResolvedBy(ctx, BareLine(v)) = {o}
             /\ \A k \in SwitchKeys \ {ctx.ops[o].key} : d.VGS_CACHE[k] = ctx.VGS_CACHE[k]

\* C14: for every switch address whose resolved operations have all run
\* their continuations, the cached value is the value of the last reply
\* observed for the address
C14_LastReplyWins ==
  \A k \in SwitchKeys :
    (/\ ctx.hLast[k] # -1
     /\ \A i \in OpIds : ~(/\ IsSwitchOp(ctx.ops[i]) /\ ctx.ops[i].key = k
                           /\ ctx.ops[i].aw = "resolved" /\ ctx.ops[i].out = "none"))
    => ctx.VGS_CACHE[k].value = ctx.hLast[k]

----------------------------------------------------------------------------
(* processIncomingLineForBare01 on its own: the session is open, some reads *)
(* (one poll per address at most, and push confirms) have been written and  *)
(* wait, their addresses in the wait order; then bare lines arrive          *)

\* what an operation slot holds: nothing, or a waiting read of an address
WaitChoices == {[kind |-> "none", key |-> 0]}
                 \cup {[kind |-> kd, key |-> k] : kd \in {"vgs", "confirm"}, k \in SwitchKeys}

\* the ids of a set of operations, in ascending order
RECURSIVE IdSeq(_)
IdSeq(S) == IF S = {} THEN <<>> ELSE <<SetMin(S)>> \o IdSeq(S \ {SetMin(S)})

RECURSIVE KeysOf(_, _)
KeysOf(reg, ids) == IF ids = <<>> THEN <<>> ELSE <<reg[Head(ids)].key>> \o KeysOf(reg, Tail(ids))

\* the context in which the reads reg were written, in the order of their
\* ids, and none has been answered (vgs_helpers.js 28-31, vgs.js 126)
WaitingCtx(reg) ==
  LET ids == {i \in OpIds : reg[i].kind # "none"} IN
  [InitCtx(MaxOps) EXCEPT
     !.tcpClient = 1,
     !.sock[1] = "open",
     !.listeners = {1},
     !.nops = MaxOps,
     !.hStarts = MaxOps,
     !.hDirectWrites = 1,
     !.AWAITERS = [k \in SwitchKeys |-> IdSeq({i \in ids : reg[i].key = k})],
     !.VGS_WAIT_ORDER = KeysOf(reg, IdSeq(ids)),
     !.VGS_INFLIGHT = [k \in SwitchKeys |->
                         IF \E i \in ids : reg[i] = [kind |-> "vgs", key |-> k]
                           THEN CHOOSE i \in ids : reg[i] = [kind |-> "vgs", key |-> k]
                           ELSE 0],
     !.ops = [i \in OpIds |->
                IF i \notin ids THEN NoOp
                ELSE [NewOp(reg[i].kind, reg[i].key, 0,
                            IF reg[i].kind = "vgs" THEN VGS_MAX_MS ELSE CONFIRM_MAX_MS, 0)
                        EXCEPT !.phase = "running", !.aw = "pending",
                               !.timer = AwaitDeadline(IF reg[i].kind = "vgs"
                                                         THEN VGS_MAX_MS ELSE CONFIRM_MAX_MS),
                               !.attached = TRUE, !.hWritten = 1, !.hStart = i]]]

InitBareLine ==
  \E reg \in [OpIds -> WaitChoices] :
    /\ \A k \in SwitchKeys :
         /\ Cardinality({i \in OpIds : reg[i] = [kind |-> "vgs", key |-> k]}) <= 1
         /\ Cardinality({i \in OpIds : reg[i].key = k}) <= AWAITERS_MAX_PER_KEY
    /\ ctx = WaitingCtx(reg)

\* a chunk holding one bare line arrives
BareArrives(v) == Recv(1, BareLine(v))

NextBareLine == \E v \in 0..1 : BareArrives(v)

SpecBareLine == InitBareLine /\ [][NextBareLine]_vars

\* C13: a bare 0|1 line met with a non-empty wait order pops its head SA,
\* sets the cache of SA to the value and resolves the awaiters of SA, and of
\* no other address, with the value as a string; met with an empty wait
\* order it changes nothing
C13_BareLine ==
  \A v \in 0..1 :
    LET d == processIncomingLineForBare01(ctx, v) IN
    IF ctx.VGS_WAIT_ORDER = <<>> THEN d = ctx
    ELSE LET k == Head(ctx.VGS_WAIT_ORDER) IN
         /\ d.VGS_WAIT_ORDER = Tail(ctx.VGS_WAIT_ORDER)
         /\ d.VGS_CACHE[k].has /\ d.VGS_CACHE[k].value = v /\ d.VGS_CACHE[k].age = 0
         /\ \A j \in SwitchKeys \ {k} :
              d.VGS_CACHE[j] = ctx.VGS_CACHE[j] /\ d.AWAITERS[j] = ctx.AWAITERS[j]
         /\ d.AWAITERS[k] = <<>>
         /\ \A i \in OpIds :
              IF i \in Range(ctx.AWAITERS[k])
                THEN /\ d.ops[i].aw = "resolved"
                     /\ d.ops[i].awRaw = BareLine(v)
                     /\ d.ops[i].timer = -1
                ELSE d.ops[i] = ctx.ops[i]
         /\ d.PUSH_STATE = ctx.PUSH_STATE /\ d.PENDING = ctx.PENDING

\* a bare line has resolved the read at the head of the wait order while a
\* read of the other address stays waiting
C13_Witness ==
  \E i, j \in OpIds :
    /\ ctx.ops[i].aw = "resolved" /\ ctx.ops[i].awRaw.form = "BARE"
    /\ ctx.ops[j].aw = "pending" /\ ctx.ops[j].key # ctx.ops[i].key
    /\ ctx.VGS_WAIT_ORDER = <<ctx.ops[j].key>>

----------------------------------------------------------------------------
(* The push pipeline: station buttons push SW events, the confirm timers   *)
(* fire, the session may be torn down; the whitelist and its policy are    *)
(* whatever the configuration holds.  And the polls beside the pipeline:   *)
(* GET /status/vgs in every format, with and without a cache window, while *)
(* the button of address 1 is pressed.                                     *)

\* vgs.js 56-59: GET /status/vgs without a session answers 400 'Not connected.'
SwitchReadNotConnected(k, fmt) ==
  /\ ctx.tcpClient = 0
  /\ ctx.nops < ctx.opLimit
  /\ ctx' = [ctx EXCEPT !.nops = NextId,
                        !.ops[NextId] = [NewOp("vgs", k, 0, 0, 0) EXCEPT
                                           !.fmt = fmt, !.phase = "done",
                                           !.out = "notconnected", !.status = 400]]

\* GET /status/vgs, with and without a session: vgs.js 53-135
GetStatusVgs(k, cacheMs, jitterMs, maxMs, fmt) ==
  \/ SwitchReadNotConnected(k, fmt)
  \/ SwitchReadAs(k, cacheMs, jitterMs, maxMs, fmt)

PollCacheMs == {0, MIN_POLL_INTERVAL_MS}     \* req.query.cacheMs
PollFormats == {"bool", "json"}              \* req.query.format

PollRead(k, cacheMs, fmt) == GetStatusVgs(k, cacheMs, 0, VGS_MAX_MS, fmt)

\* the controller answers the reads of address 1; those of the other
\* addresses run into their deadline
PushReplies == {[form |-> "RGS#", key |-> 1, v |-> v] : v \in 0..1}

\* the configured whitelist: none, or address 1 alone
PushWhitelists == {{}, {1}}

InitPush ==
  \E wl \in PushWhitelists, strict \in BOOLEAN :
    ctx = [InitCtx(MaxOps - 2) EXCEPT !.WHITELIST = wl, !.HB_WHITELIST_STRICT = strict]

NextPush ==
  \/ ConnectFirst
  \/ \E s \in SockIds : SockConnected(s)
  \/ Disconnect
  \/ \E s \in SockIds, line \in PushReplies : Reply(s, line)
  \/ \E s \in SockIds, k \in SwitchKeys, v \in 0..1 : PushEvent(s, k, v)
  \/ \E k \in SwitchKeys : ConfirmFire(k)
  \/ \E p \in Pumpers : GapDone(p)
  \/ \E p \in Pumpers : WriteDone(p)
  \/ \E id \in OpIds : AwaiterTimeout(id)
  \/ Tick

SpecPush == InitPush /\ [][NextPush]_vars

InitPoll == ctx = InitCtx(MaxOps - 2)

NextPoll ==
  \/ ConnectFirst
  \/ \E s \in SockIds : SockConnected(s)
  \/ Disconnect
  \/ \E s \in SockIds, line \in PushReplies : Reply(s, line)
  \/ \E s \in SockIds : PushEvent(s, 1, 1)
  \/ \E cacheMs \in PollCacheMs, fmt \in PollFormats : PollRead(1, cacheMs, fmt)
  \/ ConfirmFire(1)
  \/ \E p \in Pumpers : GapDone(p)
  \/ \E p \in Pumpers : WriteDone(p)
  \/ \E id \in OpIds : AwaiterTimeout(id)
  \/ Tick

SpecPoll == InitPoll /\ [][NextPoll]_vars

\* a step in which GET /status/vgs for address k comes in as operation i
ReadArrives(i, k) ==
  ctx.ops[i].kind = "none" /\ ctx'.ops[i].kind = "vgs" /\ ctx'.ops[i].key = k

\* the step answers operation i from the push state of k: 200, source
\* push-state, the push state's value and age, nothing written, nothing
\* queued, no awaiter, no in-flight entry
AnsweredFromPush(i, k) ==
  /\ ctx'.ops[i].phase = "done" /\ ctx'.ops[i].out = "ok" /\ ctx'.ops[i].status = 200
  /\ ctx'.ops[i].resp.has /\ ctx'.ops[i].resp.source = "push-state"
  /\ ctx'.ops[i].resp.value = ctx.PUSH_STATE[k].value
  /\ ctx'.ops[i].resp.age = ctx.PUSH_STATE[k].age
  /\ ctx'.ops[i].hWritten = 0
  /\ ctx'.queue = ctx.queue /\ ctx'.pump = ctx.pump /\ ctx'.pumping = ctx.pumping
  /\ ctx'.AWAITERS = ctx.AWAITERS /\ ctx'.VGS_WAIT_ORDER = ctx.VGS_WAIT_ORDER
  /\ ctx'.VGS_INFLIGHT = ctx.VGS_INFLIGHT /\ ctx'.hDirectWrites = ctx.hDirectWrites
  /\ ctx'.VGS_CACHE = ctx.VGS_CACHE /\ ctx'.PUSH_STATE = ctx.PUSH_STATE

PushFresh(k) == ctx.PUSH_STATE[k].has /\ ctx.PUSH_STATE[k].age < PUSH_FRESH_MS

PushStateWritten(k) ==
  /\ ctx'.PUSH_STATE[k] # ctx.PUSH_STATE[k]
  /\ ctx'.PUSH_STATE[k] # Older(ctx.PUSH_STATE[k], AgeCap)

\* C17: the push state of SA is written only in the step in which a confirm
\* read of SA, started by the confirm timer and written once, succeeds, and
\* with the value that read returned; the step in which a confirm fails
\* leaves the push state as it was, arms no timer and starts no operation,
\* and a finished confirm is never written again
C17_PushStateWriter ==
  [][/\ \A k \in SwitchKeys :
          PushStateWritten(k) =>
            \E i \in OpIds :
              /\ ctx.ops[i].kind = "confirm" /\ ctx.ops[i].key = k
              /\ ctx.ops[i].out = "none" /\ ctx'.ops[i].out = "ok"
              /\ ctx.ops[i].hWritten = 1
              /\ ctx'.PUSH_STATE[k].value = parseStateFromAny(ctx'.ops[i].awRaw).value
              /\ ctx'.PUSH_STATE[k].age = 0
     /\ \A i \in OpIds :
          /\ (ctx.ops[i].kind = "confirm" /\ ctx.ops[i].out = "none"
                /\ ctx'.ops[i].out \notin {"none", "ok"})
               => /\ ctx'.PUSH_STATE[ctx.ops[i].key] = ctx.PUSH_STATE[ctx.ops[i].key]
                  /\ ctx'.PENDING[ctx.ops[i].key] \in {ctx.PENDING[ctx.ops[i].key], -1}
                  /\ ctx'.nops = ctx.nops
                  /\ ctx'.ops[i].hWritten = ctx.ops[i].hWritten
          /\ (ctx.ops[i].kind = "confirm" /\ ctx.ops[i].out # "none")
               => ctx'.ops[i].hWritten = ctx.ops[i].hWritten /\ ctx'.ops[i].out = ctx.ops[i].out
          /\ ctx'.ops[i].kind = "confirm" => ctx'.ops[i].hWritten <= 1]_vars

\* one confirm has failed and left no push state for its address, another
\* has succeeded and written the push state of its address
C17_Witness ==
  \E i, j \in OpIds :
    /\ ctx.ops[i].kind = "confirm" /\ ctx.ops[i].out = "timeout" /\ ctx.ops[i].hWritten = 1
    /\ ~ctx.PUSH_STATE[ctx.ops[i].key].has
    /\ ctx.ops[j].kind = "confirm" /\ ctx.ops[j].out = "ok"
    /\ ctx.PUSH_STATE[ctx.ops[j].key].has

\* the delay onSWEvent arms the confirm timer with
ConfirmDelay(v) == IF v = 0 THEN RELEASE_DELAY_MS ELSE DEBOUNCE_MS

\* C18: for a whitelisted SA an SW event leaves exactly one confirm timer
\* armed, with 60 ms for v = 0 and DEBOUNCE_MS for v = 1, whatever was
\* pending before, and touches no operation and no other timer; there is
\* never more than one timer per SA, and a timer is armed exactly from an SW
\* event until it fires (or the session is torn down); a confirm starts only
\* when the timer fires, which ends the burst, and is written at most once
C18_Debounce ==
  [][/\ \A k \in SwitchKeys :
          /\ ctx.hTimers[k] <= 1
          /\ (ctx.PENDING[k] >= 0) <=> (ctx.hTimers[k] = 1)
          /\ \A v \in 0..1 :
               isWhitelisted(ctx, k) =>
                 LET d == onSWEvent(ctx, k, v) IN
                 /\ d.PENDING[k] = ConfirmDelay(v) /\ d.hTimers[k] = 1
                 /\ \A j \in SwitchKeys \ {k} : d.PENDING[j] = ctx.PENDING[j]
                 /\ d.ops = ctx.ops /\ d.queue = ctx.queue /\ d.nops = ctx.nops
          \* a step that re-arms a pending timer (an SW event of a burst)
          \* starts no confirm
          /\ (ctx.PENDING[k] >= 0 /\ ctx'.PENDING[k] > ctx.PENDING[k]) => ctx'.nops = ctx.nops
     /\ \A i \in OpIds :
          /\ (ctx.ops[i].kind = "none" /\ ctx'.ops[i].kind = "confirm")
               => LET k == ctx'.ops[i].key IN
                  /\ ctx.PENDING[k] = 0 /\ ctx'.PENDING[k] = -1
                  /\ ctx.hTimers[k] = 1 /\ ctx'.hTimers[k] = 0
                  /\ ctx'.nops = ctx.nops + 1
          /\ ctx'.ops[i].kind = "confirm" => ctx'.ops[i].hWritten <= 1]_vars

\* a burst of two SW events for address 1 has ended in one confirm: every
\* address is allowed, two lines have come in on the session and none was a
\* reply, no timer is left or was cancelled by a teardown, and the one
\* operation there is - the confirm of address 1 - has written its VGS# once
C18_Witness ==
  /\ ctx.WHITELIST = {} /\ ~ctx.HB_WHITELIST_STRICT
  /\ ctx.tcpClient # 0 /\ ctx.RECV_BUFFER = 2 /\ ~ctx.hTimerCancelled
  /\ \A k \in SwitchKeys : ctx.PENDING[k] = -1
  /\ ctx.nops = 1
  /\ ctx.ops[1].kind = "confirm" /\ ctx.ops[1].key = 1
  /\ ctx.ops[1].hWritten = 1 /\ ctx.ops[1].aw = "pending"

\* Whitelist.contains(SA) as the spec words it
Allowed(k) ==
  IF ctx.WHITELIST # {} THEN k \in ctx.WHITELIST ELSE ~ctx.HB_WHITELIST_STRICT

\* C19: a confirm timer is armed for SA only if the whitelist contains SA
\* (membership when it is non-empty; when empty, denied under
\* HB_WHITELIST_STRICT and allowed otherwise); an SW line for an SA it does
\* not contain changes nothing: no timer, no confirm, no push state, no cache
C19_Whitelist ==
  \A k \in SwitchKeys :
    /\ isWhitelisted(ctx, k) <=> Allowed(k)
    /\ (ctx.PENDING[k] >= 0 \/ ctx.hTimers[k] > 0) => Allowed(k)
    /\ ~Allowed(k) =>
         /\ \A v \in 0..1 : processLine(ctx, [form |-> "SW", key |-> k, v |-> v]) = ctx
         /\ ~ctx.PUSH_STATE[k].has
         /\ \A i \in OpIds : ~(ctx.ops[i].kind = "confirm" /\ ctx.ops[i].key = k)

\* with address 1 alone on the whitelist, SW lines have come in on the
\* session and armed nothing, while an event for address 1 would arm a timer
C19_Witness ==
  /\ ctx.WHITELIST = {1}
  /\ ctx.tcpClient # 0 /\ ctx.RECV_BUFFER > 0 /\ ctx.nops = 0
  /\ \A k \in SwitchKeys : ctx.PENDING[k] = -1
  /\ ctx.hTimerCancelled = FALSE
  /\ onSWEvent(ctx, 1, 1).PENDING[1] = DEBOUNCE_MS

\* C20: the step in which a switch read that went to the wire fails
\* (timeout, saturation, disconnect, write error): with a cache entry for
\* SA, however old, the read returns that entry with 200 and
\* X-Status-Fallback and the cache stays as it is; with none and
\* format=bool it returns false with 200 and X-Status-Error
C20_StaleFallback ==
  [][\A i \in OpIds :
       (ctx.ops[i].kind = "vgs" /\ ctx.ops[i].out = "none"
          /\ ctx'.ops[i].out \notin {"none", "ok"})
         => LET k == ctx.ops[i].key
                stale == ctx.VGS_CACHE[k]
            IN /\ ctx'.ops[i].out \in {"timeout", "saturated", "disconnected", "writeerr"}
               /\ ctx'.ops[i].phase = "done"
               /\ ctx'.VGS_CACHE[k] = stale
               /\ IF stale.has
                    THEN /\ ctx'.ops[i].resp = stale
                         /\ ctx'.ops[i].fallback
                         /\ ctx'.ops[i].status = 200
                    ELSE /\ ~ctx'.ops[i].fallback
                         /\ ~ctx'.ops[i].resp.has
                         /\ ctx'.ops[i].fmt = "bool" => ctx'.ops[i].status = 200]_vars

\* a read that ran into its deadline was answered from a cache entry older
\* than any freshness window, and a format=bool read failed with no entry
C20_Witness ==
  \E i \in OpIds :
    /\ ctx.ops[i].kind = "vgs" /\ ctx.ops[i].out = "timeout"
    /\ ctx.ops[i].fallback /\ ctx.ops[i].status = 200
    /\ ctx.ops[i].resp.age >= PUSH_FRESH_MS

\* C21: a switch read with format=bool that comes in while the session is
\* disconnected and the cache holds a (stale) entry of value 0 for SA is
\* answered 200 "false" with X-Status-Fallback: stale-cache
C21_StaleWhenDisconnected ==
  [][\A i \in OpIds, k \in SwitchKeys :
       (/\ ReadArrives(i, k)
        /\ ctx.tcpClient = 0
        /\ ctx.VGS_CACHE[k].has /\ ctx.VGS_CACHE[k].value = 0
        /\ ctx'.ops[i].fmt = "bool")
         => /\ ctx'.ops[i].status = 200
            /\ ctx'.ops[i].fallback
            /\ ctx'.ops[i].resp.has /\ ctx'.ops[i].resp.value = 0]_vars

\* the status the spec assigns to a failure that no fallback masks
SpecStatus(how) ==
  IF how = "timeout" THEN 504
  ELSE IF how = "saturated" THEN 429
  ELSE IF how = "notconnected" THEN 400
  ELSE 500

\* C22: a switch read or load operation that has failed, and whose failure
\* no stale-cache or format=bool fallback masks, has status 504 after an
\* awaiter timeout, 429 after awaiter saturation, 400 without a session and
\* 500 after any other failure
C22_StatusCodes ==
  \A i \in OpIds :
    (/\ ctx.ops[i].kind \in {"vgs", "dimset"}
     /\ ctx.ops[i].phase = "done"
     /\ ctx.ops[i].out \notin {"none", "ok"}
     /\ ~ctx.ops[i].fallback
     /\ ~(ctx.ops[i].kind = "vgs" /\ ctx.ops[i].fmt = "bool" /\ ctx.ops[i].out # "notconnected"))
      => ctx.ops[i].status = SpecStatus(ctx.ops[i].out)

-----------------------------------------------------------------------------
(* Connection management with auto-connect enabled: index.js calls
   tryConnect('startup') while it starts, so the first socket is already
   connecting when the first event is handled.  Confirm reads are at least
   DEBOUNCE_MS apart, so the pumper never has a gap to wait for here *)

InitConnect == ctx = tryConnect(InitCtx(MaxOps - 2))

NextConnect ==
  \/ ConnectCall
  \/ \E s \in SockIds : SockConnected(s)
  \/ \E s \in SockIds : SockError(s)
  \/ \E s \in SockIds : SockClosed(s)
  \/ Disconnect
  \/ AutoRetryFire
  \/ \E s \in SockIds : PushEvent(s, 1, 1)
  \/ ConfirmFire(1)
  \/ \E p \in Pumpers : WriteDone(p)
  \/ \E id \in OpIds : AwaiterTimeout(id)
  \/ Tick

SpecConnect == InitConnect /\ [][NextConnect]_vars

Connecting(c) == \E s \in SockIds : c.sock[s] = "connecting"

\* C23: whenever the session leaves Connected while auto-connect is enabled
\* and the retry delay is positive, a reconnect attempt is scheduled (the
\* retry timer is armed) or already under way
C23_ReconnectScheduled ==
  [][(ctx.tcpClient # 0 /\ ctx'.tcpClient = 0 /\ AUTO_CONNECT_RETRY_MS > 0)
       => (ctx'.autoTimer >= 0 \/ Connecting(ctx'))]_vars

Feeding(c) == {s \in SockIds : c.sock[s] = "open" /\ s \in c.listeners}

\* C25: in every reachable state at most one socket is open and feeding the
\* reader, and it is the socket of the session
C25_OneConnection ==
  /\ Cardinality(Feeding(ctx)) <= 1
  /\ \A s \in Feeding(ctx) : ctx.tcpClient = s

-----------------------------------------------------------------------------
(* The receive path at the level of bytes: the ring of appendRecv and the
   framer of processIncomingText.  Here ctx holds only the two buffers, as
   sequences, and three observers: hStream, the bytes received since the
   last reset, hLast, the last chunk, and hLines, the lines handed to the
   line handlers since the last reset.
   The ring's capacity is MAX_RECV_BYTES, now counted in bytes. *)

MaxStream == 4                       \* bytes received between two resets
Bytes == {13, 10, 97, 98}            \* CR, LF, 'a', 'b'
MaxChunk == MAX_RECV_BYTES + 1       \* the longest chunk a read delivers here

Chunks == UNION {[1..n -> Bytes] : n \in 1..MaxChunk}

\* Buffer.slice(from): the bytes from offset `from` (0-based) to the end
BufSlice(buf, from) == SubSeq(buf, from + 1, Len(buf))

\* appendRecv lines 112-117: trim the ring, then concatenate
appendRecvRing(RECV, buf) ==
  LET keep == Max(0, MAX_RECV_BYTES - Len(buf))
      trimmed == IF Len(RECV) + Len(buf) > MAX_RECV_BYTES /\ keep < Len(RECV)
                   THEN BufSlice(RECV, Len(RECV) - keep)
                   ELSE RECV
  IN trimmed \o buf

\* buf.toString('utf8'), for the one-byte characters of the alphabet
Utf8Char(b) == CASE b = 13 -> "\r" [] b = 10 -> "\n" [] b = 97 -> "a" [] OTHER -> "b"
toStringUtf8(buf) == [i \in 1..Len(buf) |-> Utf8Char(buf[i])]

IsTerminator(ch) == ch \in {"\r", "\n"}

\* a search for /\n/ alone
SearchNewline(text) ==
  IF \E i \in 1..Len(text) : text[i] = "\n"
    THEN SetMin({i \in 1..Len(text) : text[i] = "\n"})
    ELSE 0

\* String.search(/[\r\n]/): the 1-based position of the first terminator, 0 if none
SearchTerminator(text) ==
  IF \E i \in 1..Len(text) : IsTerminator(text[i])
    THEN SetMin({i \in 1..Len(text) : IsTerminator(text[i])})
    ELSE 0

\* the while loop of processIncomingText; st = [buf, lines]
RECURSIVE processIncomingTextLoop(_)
processIncomingTextLoop(st) ==
  LET idx == SearchTerminator(st.buf)
      line == SubSeq(st.buf, 1, idx - 1)
      rest0 == SubSeq(st.buf, idx + 1, Len(st.buf))
      rest == IF rest0 # <<>> /\ rest0[1] = "\n" /\ st.buf[idx] = "\r"
                THEN Tail(rest0) ELSE rest0
  IN IF idx = 0 THEN st
     ELSE processIncomingTextLoop(
            [buf |-> rest,
             lines |-> IF Len(line) > 0 THEN Append(st.lines, line) ELSE st.lines])

\* processIncomingText(chunkUtf8) on the text buffer
processIncomingTextChunk(c, chunkUtf8) ==
  LET st == processIncomingTextLoop([buf |-> c.INCOMING_TEXT_BUF \o chunkUtf8,
                                     lines |-> c.hLines])
  IN [c EXCEPT !.INCOMING_TEXT_BUF = st.buf, !.hLines = st.lines]

InitRecv ==
  ctx = [RECV_BUFFER |-> <<>>, INCOMING_TEXT_BUF |-> <<>>,
         hStream |-> <<>>, hLines |-> <<>>, hLast |-> <<>>]

\* socket.on('data', appendRecv): the whole of appendRecv for one chunk
SocketData(buf) ==
  /\ Len(ctx.hStream) + Len(buf) <= MaxStream
  /\ ctx' = processIncomingTextChunk(
              [ctx EXCEPT !.RECV_BUFFER = appendRecvRing(@, buf),
                          !.hStream = @ \o buf,
                          !.hLast = buf],
              toStringUtf8(buf))

\* resetRecv, called when a socket connects
ResetRecv ==
  /\ ctx.hStream # <<>>
  /\ ctx' = [RECV_BUFFER |-> <<>>, INCOMING_TEXT_BUF |-> <<>>,
             hStream |-> <<>>, hLines |-> <<>>, hLast |-> <<>>]

NextRecv ==
  \/ \E buf \in Chunks : SocketData(buf)
  \/ ResetRecv

SpecRecv == InitRecv /\ [][NextRecv]_vars

\* the last n elements of a sequence
LastN(seq, n) == SubSeq(seq, Len(seq) - n + 1, Len(seq))

\* C26: after every chunk the ring holds at most MAX_RECV_BYTES bytes, and
\* they are the most recent bytes received
C26_RingBounded ==
  /\ Len(ctx.RECV_BUFFER) <= MAX_RECV_BYTES
  /\ ctx.RECV_BUFFER = LastN(ctx.hStream, Min(MAX_RECV_BYTES, Len(ctx.hStream)))

\* the segments of a text: cur is the segment being read, acc the non-empty
\* segments already closed by a terminator
RECURSIVE Segments(_, _, _)
Segments(text, cur, acc) ==
  IF text = <<>> THEN [lines |-> acc, tail |-> cur]
  ELSE IF IsTerminator(Head(text))
    THEN Segments(Tail(text), <<>>, IF cur # <<>> THEN Append(acc, cur) ELSE acc)
    ELSE Segments(Tail(text), Append(cur, Head(text)), acc)

\* C27: however the stream was split into chunks, the lines emitted so far
\* are exactly the non-empty segments closed by a terminator (CR, LF or CRLF),
\* once each and in order, and the unterminated tail is what stays buffered
C27_Framer ==
  LET seg == Segments(toStringUtf8(ctx.hStream), <<>>, <<>>)
  IN ctx.hLines = seg.lines /\ ctx.INCOMING_TEXT_BUF = seg.tail

\* a CR and its LF arrived in different chunks, with a line before them and
\* an unterminated tail after them
C27_Witness ==
  /\ ctx.hStream = <<97, 13, 10, 98>>
  /\ ctx.hLast = <<10, 98>>
  /\ ctx.hLines = << <<"a">> >>
  /\ ctx.INCOMING_TEXT_BUF = <<"b">>

-----------------------------------------------------------------------------
(* The order of the send queue.  Under SpecQueue every item is enqueued by
   the request that creates its operation (the reads have no jitter), so
   the operations' numbers give the order of enqueueing *)

\* C28: the queue is ordered by priority, highest first, and first-in
\* first-out among items of equal priority; the pumper takes items from the
\* head only: the items that leave the queue in a step are a prefix of it
C28_QueueOrder ==
  [][/\ \A a, b \in 1..Len(ctx'.queue) :
          a < b => \/ ctx'.ops[ctx'.queue[a]].priority > ctx'.ops[ctx'.queue[b]].priority
                   \/ /\ ctx'.ops[ctx'.queue[a]].priority = ctx'.ops[ctx'.queue[b]].priority
                      /\ ctx'.queue[a] < ctx'.queue[b]
     /\ \A a, b \in 1..Len(ctx.queue) :
          (a < b /\ \A n \in 1..Len(ctx'.queue) : ctx'.queue[n] # ctx.queue[b])
            => \A n \in 1..Len(ctx'.queue) : ctx'.queue[n] # ctx.queue[a]]_vars

\* three items wait: one went ahead of an earlier item of lower priority,
\* and two of equal priority wait in the order they came
C28_Witness ==
  /\ Len(ctx.queue) = 3
  /\ ctx.ops[ctx.queue[1]].priority > ctx.ops[ctx.queue[2]].priority
  /\ ctx.ops[ctx.queue[2]].priority = ctx.ops[ctx.queue[3]].priority
  /\ ctx.queue[2] < ctx.queue[1]
  /\ ctx.queue[1] < ctx.queue[3]

\* C29: the pumper waits for the gap and only then takes an item, so an item
\* of higher priority submitted while the pumper sleeps on the gap is
\* written before the items of lower priority not yet written, the one the
\* pumper sleeps for included
C29_GapThenPop ==
  \A i, j \in OpIds :
    (/\ ctx.ops[i].hEnqGap = j
     /\ ctx.ops[i].priority > ctx.ops[j].priority
     /\ ctx.ops[j].hWritten > 0)
      => (ctx.ops[i].hWritten > 0 /\ ctx.ops[i].hStart < ctx.ops[j].hStart)

\* the fn of queue item i is in progress: started and suspended on its
\* write or on its own sleep
FnRunning(c, i) ==
  \E p \in Pumpers : c.pump[p].item = i /\ c.pump[p].pc \in {"write", "wait"}

\* the fn of queue item i returns in this step, normally or by throwing
FnReturns(i) ==
  /\ ctx'.ops[i].hStart > 0
  /\ ~FnRunning(ctx', i)
  /\ ctx.ops[i].hStart = 0 \/ FnRunning(ctx, i)

\* C30: lastSendAt is set whenever an item's fn returns, whether it
\* succeeded or failed (sinceLastSend is the time since lastSendAt)
C30_LastSendAtAlways ==
  [][\A i \in OpIds : FnReturns(i) => ctx'.sinceLastSend = 0]_vars

-----------------------------------------------------------------------------
(* The caches in front of the queue: reads of switch address 1 and of load
   address 1, load sets, push events and their confirms, with the
   controller answering and the session coming and going *)

CacheReplies ==
  {[form |-> "RGS#", key |-> 1, v |-> 1], [form |-> "RLB#", key |-> 1, v |-> 1]}

InitCache == ctx = InitCtx(MaxOps - 2)

NextCache ==
  \/ ConnectFirst
  \/ \E s \in SockIds : SockConnected(s)
  \/ Disconnect
  \/ \E s \in SockIds, line \in CacheReplies : Reply(s, line)
  \/ \E s \in SockIds : PushEvent(s, 1, 1)
  \/ \E cacheMs \in PollCacheMs : PollRead(1, cacheMs, "bool")
  \/ \E cacheMs \in PollCacheMs : GetDim(1, cacheMs, LOAD_MAX_MS)
  \/ AwaitSet
  \/ ConfirmFire(1)
  \/ \E p \in Pumpers : GapDone(p)
  \/ \E p \in Pumpers : WriteDone(p)
  \/ \E id \in OpIds : AwaiterTimeout(id)
  \/ Tick

SpecCache == InitCache /\ [][NextCache]_vars

\* the step answers the request that comes in, operation nops + 1, with the
\* record rec: 200, at once, nothing queued, nothing handed to the pumper,
\* no command written for this or any other operation
CacheAnswer(rec) ==
  LET i == ctx.nops + 1
  IN /\ ctx'.nops = i
     /\ ctx'.ops[i].phase = "done" /\ ctx'.ops[i].status = 200
     /\ ctx'.ops[i].resp = rec
     /\ ctx'.queue = ctx.queue /\ ctx'.pump = ctx.pump
     /\ \A j \in OpIds : ctx'.ops[j].hWritten = IF j = i THEN 0 ELSE ctx.ops[j].hWritten

-----------------------------------------------------------------------------
(* The pumper's progress: switch writes, raw sends and reads on one session
   that the controller may close, under a fair event loop *)

InitPump == ctx = InitCtx(MaxOps - 1)

\* a turn of the event loop that concerns the queue: a due timer callback,
\* a write callback, or the passing of time
PumpTurn ==
  \/ \E p \in Pumpers : GapDone(p)
  \/ \E p \in Pumpers : WriteDone(p)
  \/ \E p \in Pumpers : WaitDone(p)
  \/ \E id \in OpIds : AwaiterTimeout(id)
  \/ Tick

NextPump ==
  \/ ConnectFirst
  \/ \E s \in SockIds : SockConnected(s)
  \/ \E s \in SockIds : SockClosed(s)
  \/ QueueRead
  \/ QueueWrite
  \/ QueueSend
  \/ PumpTurn

\* PumpTurn can take a step (the state predicate ENABLED <<PumpTurn>>_vars)
PumpDue ==
  \/ \E p \in Pumpers : ctx.pump[p].pc \in {"gap", "wait"} /\ ctx.pump[p].left = 0
  \/ \E p \in Pumpers : ctx.pump[p].pc = "write"
  \/ \E id \in OpIds : ctx.ops[id].timer = 0
  \/ (SomethingTimed /\ ~TimerDue)

\* weak fairness of PumpTurn, WF_vars(PumpTurn), with its enabling condition
\* written out
PumpFair == []<>(~PumpDue) \/ []<><<PumpTurn>>_vars

SpecPump == InitPump /\ [][NextPump]_vars /\ PumpFair

\* the promise runQueued returned for item i is settled: its fn was started
\* and has returned
ItemSettled(i) == ctx.ops[i].hStart > 0 /\ ~FnRunning(ctx, i)

\* C31: every item submitted with runQueued is eventually executed and its
\* promise settled, whatever the pumper was doing when it was submitted and
\* whether or not items before it failed
C31_NeverStranded ==
  \A i \in OpIds : (ctx.ops[i].phase = "queued") ~> ItemSettled(i)

\* item j was submitted while the pumper held item i; i failed on a closed
\* socket, and j was executed after it and is settled
C31_Witness ==
  \E i, j \in OpIds :
    /\ ctx.ops[j].hEnqGap = i
    /\ ctx.ops[i].kind \in {"vsw", "send"} /\ ctx.ops[i].out = "writeerr"
    /\ ctx.ops[j].hStart > ctx.ops[i].hStart
    /\ ItemSettled(j)

\* a pumper holds item i with its write callback outstanding
Writing(c, p, i) == c.pump[p].pc = "write" /\ c.pump[p].item = i

\* C32: for the operations that await a reply the queue item completes when
\* the command write returns: in the step in which the write callback of
\* such an item runs its fn returns, whatever the state of its awaiter, and
\* the pumper goes on to the next item
C32_SlotReleased ==
  [][\A p \in Pumpers, i \in OpIds :
       (/\ Writing(ctx, p, i)
        /\ IsSwitchOp(ctx.ops[i]) \/ IsLoadOp(ctx.ops[i])
        /\ ctx'.pump[p] # ctx.pump[p])
         => ~FnRunning(ctx', i)]_vars

\* the command of a later operation has been written while the awaiter of an
\* earlier operation, whose own command was written before, is still pending
C32_Witness ==
  \E i, j \in OpIds :
    /\ ctx.ops[i].aw = "pending" /\ ctx.ops[i].hWritten > 0 /\ ~FnRunning(ctx, i)
    /\ ctx.ops[j].hStart > ctx.ops[i].hStart
    /\ ctx.ops[j].hWritten > 0 /\ ~FnRunning(ctx, j)
    /\ ctx.ops[j].aw = "pending"

-----------------------------------------------------------------------------
(* The reader's handling of switch reply lines *)

SwitchReplyForms == {"RGS", "RGS#", "VGS", "VGS#"}

\* C33: for a switch reply line in any accepted form, for any address and
\* value, the reader caches the value (1 when v # 0, else 0), resolves every
\* awaiter registered for the address with the raw line, empties the list,
\* and removes the address from the bare FIFO if it is there
C33_SwitchReply ==
  \A f \in SwitchReplyForms, k \in SwitchKeys, v \in 0..1 :
    LET line == [form |-> f, key |-> k, v |-> v]
        d == processLine(ctx, line)
    IN /\ d.VGS_CACHE[k].has
       /\ d.VGS_CACHE[k].value = (IF v # 0 THEN 1 ELSE 0)
       /\ d.AWAITERS[k] = <<>>
       /\ \A n \in 1..Len(ctx.AWAITERS[k]) :
            LET i == ctx.AWAITERS[k][n]
            IN d.ops[i].aw = "resolved" /\ d.ops[i].awRaw = line /\ d.ops[i].timer = -1
       /\ d.VGS_WAIT_ORDER = RemoveFirst(ctx.VGS_WAIT_ORDER, k)

-----------------------------------------------------------------------------
(* The start of an awaiter's deadline *)

\* the request of op i has entered its operation and waits for its queue
\* slot, or sleeps through the gap before its command
BeforeCommand(c, i) ==
  \/ c.ops[i].phase = "queued"
  \/ \E p \in Pumpers : c.pump[p].pc = "gap" /\ c.pump[p].item = i

\* C34: the awaiter of a switch or load request is registered and its deadline
\* runs from the moment the request enters the operation, through the queue
\* wait and the gap, so a Timeout comes at most max(50, maxMs) after entry
C34_DeadlineFromEntry ==
  \A i \in OpIds :
    ((IsSwitchOp(ctx.ops[i]) \/ IsLoadOp(ctx.ops[i])) /\ BeforeCommand(ctx, i))
      => (ctx.ops[i].aw = "pending" /\ ctx.ops[i].timer >= 0)

-----------------------------------------------------------------------------
(* The push state after a successful confirm *)

\* the confirm read i succeeds in the step
ConfirmSucceeds(i) ==
  /\ ctx.ops[i].kind = "confirm"
  /\ ctx.ops[i].out = "none" /\ ctx'.ops[i].out = "ok"

-----------------------------------------------------------------------------
(* Concurrent reads of load address 1 over a session, with the controller
   answering some of them and leaving others to their deadline *)

LoadReplies == {[form |-> "RLB#", key |-> 1, v |-> 1]}

InitLoad == ctx = InitCtx(MaxOps - 1)

NextLoad ==
  \/ ConnectFirst
  \/ \E s \in SockIds : SockConnected(s)
  \/ \E s \in SockIds, line \in LoadReplies : Reply(s, line)
  \/ \E cacheMs \in PollCacheMs : GetDim(1, cacheMs, LOAD_MAX_MS)
  \/ \E p \in Pumpers : GapDone(p)
  \/ \E p \in Pumpers : WriteDone(p)
  \/ \E id \in OpIds : AwaiterTimeout(id)
  \/ Tick

SpecLoad == InitLoad /\ [][NextLoad]_vars

\* the load reads of address k whose VGB# command has been written and
\* whose awaiter is still waiting for the reply
LoadReadsInFlight(c, k) ==
  {i \in OpIds : /\ c.ops[i].kind = "dimget" /\ c.ops[i].key = k
                 /\ c.ops[i].hWritten > 0
                 /\ c.ops[i].aw = "pending" /\ c.ops[i].out = "none"}

\* C36: the load reads of one address are coalesced: at any time at most one
\* VGB# request that a load read started is in flight, also after an
\* in-flight request has failed and the requests that waited for it go on
C36_OneLoadRead ==
  \A k \in LoadKeys : Cardinality(LoadReadsInFlight(ctx, k)) <= 1

-----------------------------------------------------------------------------
(* Switch reads whose command write fails, or whose awaiter is refused *)

\* the number of entries of q that equal x
Entries(q, x) == Cardinality({n \in 1..Len(q) : q[n] = x})

\* the switch read i reports the failure of its command write in the step
WriteFailureReported(i) ==
  /\ IsSwitchOp(ctx.ops[i])
  /\ ctx.ops[i].out = "none" /\ ctx'.ops[i].out = "writeerr"

\* C37: by the time a switch read reports that its command write failed, its
\* awaiter is out of the registry, the awaiter's timer is cancelled, and the
\* bare FIFO holds no entry for it (only those of the other reads of the
\* address that still wait)
C37_WriteFailureCleans ==
  [][\A i \in OpIds :
       WriteFailureReported(i) =>
         LET k == ctx.ops[i].key
         IN /\ i \notin Range(ctx'.AWAITERS[k])
            /\ ctx'.ops[i].timer = -1
            /\ Entries(ctx'.VGS_WAIT_ORDER, k)
                 <= Cardinality({j \in Outstanding(ctx') : j # i /\ ctx'.ops[j].key = k})]_vars

\* the registration of the awaiter of operation i is refused in the step
RegistrationRefused(i) ==
  /\ ctx.ops[i].aw # "saturated" /\ ctx'.ops[i].aw = "saturated"

\* C38: an operation (switch read, confirm, load read, load set) whose
\* awaiter registration is refused because the cap is reached writes no
\* command and adds no entry to the bare FIFO
C38_RefusedWritesNothing ==
  [][\A i \in OpIds :
       /\ RegistrationRefused(i) =>
            /\ ctx'.ops[i].hWritten = 0
            /\ \A p \in Pumpers : ~Writing(ctx', p, i)
            /\ IsSwitchOp(ctx.ops[i]) =>
                 Entries(ctx'.VGS_WAIT_ORDER, ctx.ops[i].key)
                   <= Entries(ctx.VGS_WAIT_ORDER, ctx.ops[i].key)
       /\ ctx.ops[i].aw = "saturated" => ctx'.ops[i].hWritten = 0]_vars

-----------------------------------------------------------------------------
(* The bare FIFO against the outstanding switch reads *)

\* C39: VGS_WAIT_ORDER holds exactly one entry for each switch read command
\* (poll or confirm) that was written and is neither answered nor timed
\* out, so for every address as many entries as there are such reads
C39_FifoMatchesOutstanding ==
  \A k \in SwitchKeys :
    Entries(ctx.VGS_WAIT_ORDER, k)
      = Cardinality({i \in Outstanding(ctx) : ctx.ops[i].key = k})

-----------------------------------------------------------------------------
(* The push state against the switch cache *)

\* C40: whenever the push state of SA is fresh, its value is the value the
\* switch cache holds for SA, also when a reply to another command for SA (a
\* poll in flight before the confirm) came in after the confirm
C40_PushStateIsCache ==
  \A k \in SwitchKeys :
    Fresh(ctx.PUSH_STATE[k], PUSH_FRESH_MS)
      => (ctx.VGS_CACHE[k].has /\ ctx.PUSH_STATE[k].value = ctx.VGS_CACHE[k].value)

====
